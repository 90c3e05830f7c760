------------------------------ MODULE Commissions ------------------------------
(***************************************************************************)
(* The commission classes and prices of one user (weasyl/commishinfo.py).  *)
(* Numbers are one more than the greatest there is, read by a statement of its *)
(* own, so that ids are used again; no foreign key ties a price to its     *)
(* class.  A unique index keeps titles of classes distinct, and titles of  *)
(* the prices of a class.                                                  *)
(*                                                                         *)
(* Every statement commits by itself.  remove_class is one transaction,    *)
(* and one step here: a price its second statement does not see is one     *)
(* inserted after it.  Amounts and currencies are left out.                *)
(***************************************************************************)
EXTENDS Naturals, FiniteSets, Requests

CONSTANTS
    MaxId,          \* bound: ids
    Titles,
    None

ConstantsOK == None \notin Titles /\ MaxId \in Nat

VARIABLES
    commishclass,   \* the title of each class, or None
    commishprice,   \* the rows: priceid, classid and title
    failed,         \* whether the last select met a price without its class,
                    \* because a class was created between its reads or one is stray
    stray,          \* history: prices inserted though their class was removed
                    \* after it had been checked
    twin            \* history: ids of prices that were being created at once

vars == <<commishclass, commishprice, call, failed, stray, twin>>

Numbers == 1 .. MaxId
Prices == [priceid : Numbers, classid : Numbers, title : Titles]
CallRecords ==
    [at : {"class insert"}, classid : Numbers, title : Titles, price : Titles \cup {None}]
    \cup [at : {"price check"}, classid : Numbers, title : Titles \cup {None}, base : BOOLEAN]
    \cup [at : {"price id"}, classid : Numbers, title : Titles, late : BOOLEAN]
    \cup [at : {"price insert"}, priceid : Numbers, classid : Numbers, title : Titles, late : BOOLEAN, beside : BOOLEAN]
    \cup [at : {"cleanup"}, classid : Numbers]
    \cup [at : {"select prices"}, classes : SUBSET Numbers, late : BOOLEAN]

TypeOK ==
    /\ commishclass \in [Numbers -> Titles \cup {None}]
    /\ commishprice \subseteq Prices
    /\ call \in [Calls -> {Idle} \cup CallRecords]
    /\ failed \in {"no", "early", "stray", "yes"}
    /\ stray \subseteq Prices /\ twin \subseteq Numbers

Init ==
    /\ commishclass = [k \in Numbers |-> None]
    /\ commishprice = {} /\ stray = {} /\ twin = {}
    /\ call = AllIdle
    /\ failed = "no"

-----------------------------------------------------------------------------
Classes == {k \in Numbers : commishclass[k] # None}
NextId(ids) == IF ids = {} THEN 1 ELSE 1 + CHOOSE i \in ids : \A j \in ids : j <= i

\* control_createcommishclass_: an id, the class, and its base price.  A form
\* without a title for the price (None) fails after the class was inserted.
CreateClass(c, title, price) ==
    /\ NextId(Classes) \in Numbers
    /\ Start(c, [at |-> "class insert", classid |-> NextId(Classes), title |-> title, price |-> price])
    /\ UNCHANGED <<commishclass, commishprice, failed, stray, twin>>

\* A second class with the id or the title violates a unique index.
ClassInsert(c) ==
    /\ At(c, "class insert")
    /\ LET k == call[c].classid
           free == k \notin Classes /\ \A j \in Classes : commishclass[j] # call[c].title
       IN  /\ commishclass' = IF free THEN [commishclass EXCEPT ![k] = call[c].title] ELSE commishclass
           /\ call' = [d \in Calls |->
                 IF d = c
                   THEN (IF free THEN [at |-> "price check", classid |-> k, title |-> call[c].price, base |-> TRUE] ELSE Idle)
                 ELSE IF At(d, "select prices") THEN [call[d] EXCEPT !.late = TRUE]
                 ELSE call[d]]
    /\ UNCHANGED <<commishprice, failed, stray, twin>>

\* control_createcommishprice_.
CreatePrice(c, classid, title) ==
    /\ Start(c, [at |-> "price check", classid |-> classid, title |-> title, base |-> FALSE])
    /\ UNCHANGED <<commishclass, commishprice, failed, stray, twin>>

\* create_price: a title, and a class that is there.
PriceCheck(c) ==
    /\ At(c, "price check")
    /\ LET valid == call[c].title # None /\ call[c].classid \in Classes
       IN  call' = [call EXCEPT ![c] =
               IF valid THEN [at |-> "price id", classid |-> @.classid, title |-> @.title, late |-> FALSE]
               ELSE IF @.base THEN [at |-> "cleanup", classid |-> @.classid]
               ELSE Idle]
    /\ UNCHANGED <<commishclass, commishprice, failed, stray, twin>>

PriceId(c) ==
    /\ At(c, "price id")
    /\ LET id == NextId({p.priceid : p \in commishprice})
       IN  /\ id \in Numbers
           /\ call' = [call EXCEPT ![c] = [at |-> "price insert", priceid |-> id, classid |-> @.classid,
                                           title |-> @.title, late |-> @.late, beside |-> FALSE]]
    /\ UNCHANGED <<commishclass, commishprice, failed, stray, twin>>

\* A conflict is an error that nothing cleans up after.
PriceInsert(c) ==
    /\ At(c, "price insert")
    /\ LET row == [priceid |-> call[c].priceid, classid |-> call[c].classid, title |-> call[c].title]
           taken == \E p \in commishprice : p.classid = row.classid /\ (p.priceid = row.priceid \/ p.title = row.title)
       IN  /\ commishprice' = IF taken THEN commishprice ELSE commishprice \cup {row}
           /\ stray' = IF call[c].late /\ ~taken THEN stray \cup {row} ELSE stray
           /\ twin' = IF call[c].beside /\ ~taken THEN twin \cup {row.priceid} ELSE twin
           /\ call' = [d \in Calls |->
                 IF d = c THEN Idle
                 ELSE IF At(d, "price insert") /\ call[d].priceid = row.priceid /\ ~taken
                   THEN [call[d] EXCEPT !.beside = TRUE]
                 ELSE call[d]]
    /\ UNCHANGED <<commishclass, failed>>

\* Fault: the prices of a removed class stay.
DeleteClassOnly(k, calls) ==
    /\ commishclass' = [commishclass EXCEPT ![k] = None]
    /\ call' = [d \in Calls |->
          IF calls[d].at \in {"price id", "price insert"} /\ calls[d].classid = k
          THEN [calls[d] EXCEPT !.late = TRUE] ELSE calls[d]]
    /\ UNCHANGED <<commishprice, stray>>

\* remove_class, also after the base price of a new class was refused.
DeleteClass(k, calls) ==
    /\ commishclass' = [commishclass EXCEPT ![k] = None]
    /\ commishprice' = IF k \in Classes THEN {p \in commishprice : p.classid # k} ELSE commishprice
    /\ stray' = IF k \in Classes THEN {p \in stray : p.classid # k} ELSE stray
    /\ call' = [d \in Calls |->
          IF calls[d].at \in {"price id", "price insert"} /\ calls[d].classid = k
          THEN [calls[d] EXCEPT !.late = TRUE] ELSE calls[d]]

RemoveClass(k) ==
    /\ k \in Classes
    /\ DeleteClass(k, call)
    /\ UNCHANGED <<failed, twin>>

Cleanup(c) ==
    /\ At(c, "cleanup")
    /\ DeleteClass(call[c].classid, [call EXCEPT ![c] = Idle])
    /\ UNCHANGED <<failed, twin>>

\* edit_class and edit_price: titles, where they do not conflict.
EditClass(k, title) ==
    /\ k \in Classes /\ \A j \in Classes : commishclass[j] # title
    /\ commishclass' = [commishclass EXCEPT ![k] = title]
    /\ UNCHANGED <<commishprice, call, failed, stray, twin>>

\* Every row with the id is written, and then more than one is an error.
EditPrice(id, title) ==
    LET edited(p) == [p EXCEPT !.title = IF p.priceid = id THEN title ELSE @]
        rows == {edited(p) : p \in commishprice}
    IN  /\ \E p \in commishprice : p.priceid = id
        /\ \A p, q \in commishprice : p # q => ~(edited(p).classid = edited(q).classid /\ edited(p).title = edited(q).title)
        /\ commishprice' = rows
        /\ stray' = {edited(p) : p \in stray}
        /\ UNCHANGED <<commishclass, call, failed, twin>>

RemovePrice(id) ==
    /\ \E p \in commishprice : p.priceid = id
    /\ commishprice' = {p \in commishprice : p.priceid # id}
    /\ stray' = {p \in stray : p.priceid # id}
    /\ twin' = twin \ {id}
    /\ UNCHANGED <<commishclass, call, failed>>

\* select reads the classes, and then the prices.
SelectClasses(c) ==
    /\ Start(c, [at |-> "select prices", classes |-> Classes, late |-> FALSE])
    /\ failed' = "no"
    /\ UNCHANGED <<commishclass, commishprice, stray, twin>>

SelectPrices(c) ==
    /\ At(c, "select prices")
    /\ LET unlisted == {p \in commishprice : p.classid \notin call[c].classes}
       IN  failed' = IF unlisted = {} THEN "no"
                     ELSE IF call[c].late THEN "early"
                     ELSE IF unlisted \subseteq stray THEN "stray" ELSE "yes"
    /\ End(c)
    /\ UNCHANGED <<commishclass, commishprice, stray, twin>>

Next ==
    \/ \E c \in Calls :
        \/ \E title \in Titles, price \in Titles \cup {None} : CreateClass(c, title, price)
        \/ \E k \in Numbers, title \in Titles : CreatePrice(c, k, title)
        \/ ClassInsert(c) \/ PriceCheck(c) \/ PriceId(c) \/ PriceInsert(c) \/ Cleanup(c)
        \/ SelectClasses(c) \/ SelectPrices(c)
    \/ \E k \in Numbers : RemoveClass(k) \/ RemovePrice(k) \/ \E title \in Titles : EditClass(k, title) \/ EditPrice(k, title)

Spec == Init /\ [][Next]_vars

-----------------------------------------------------------------------------
\* A price has its class, though ids are used again, unless the class was
\* removed while the price was being created.  So a page that lists prices
\* fails only after that, or if a class is created between its two reads.
PricesHaveTheirClass ==
    /\ \A p \in commishprice \ stray : p.classid \in Classes
    /\ failed # "yes"

\* Prices are edited and removed by their id alone: no other has it, unless two
\* were being created at once.
PriceIdsDiffer ==
    \A p, q \in commishprice : p.priceid = q.priceid => p = q \/ p.priceid \in twin
================================================================================
