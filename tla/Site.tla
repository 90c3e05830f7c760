--------------------------------- MODULE Site ---------------------------------
(***************************************************************************)
(* What SiteContent and SiteAccounts share.  The components of the site    *)
(* that do not call one another are side by side in them, all of them in   *)
(* the same requests (call).  Each has its own rows; where two of them     *)
(* read one table (ignoreuser, frienduser, the posts), each has its own    *)
(* copy of it, with every change of it that the code can make and the      *)
(* component can tell.  So nothing is true of a component only because of  *)
(* what another does, and a behaviour is of one of them, its part.         *)
(*                                                                         *)
(* Each component has a promise, made of the properties that its module    *)
(* states and explains.                                                    *)
(***************************************************************************)
EXTENDS Naturals, Requests

CONSTANTS
    None,           \* no row, no value
    Owner,          \* whose account, page, posts and folders they are
    Ids,            \* bound: folders, comments and names that are ever used
    MaxCopies       \* bound: copies of a notification, of a row

VARIABLE part       \* the component that moves
===============================================================================
