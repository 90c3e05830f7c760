-------------------------- MODULE MCContainerInit --------------------------
EXTENDS ContainerInit, FiniteSets

\* A program that ends well, one that fails, one that is killed by SIGKILL.
MCStatuses == {[signaled |-> FALSE, n |-> 0], [signaled |-> FALSE, n |-> 3],
               [signaled |-> TRUE, n |-> 9]}
=============================================================================
