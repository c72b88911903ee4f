--------------------------- MODULE CustodyLedger ----------------------------
(***************************************************************************)
(* What ownership of physical items promises, without requests, rows or    *)
(* locks: an item has one holder, changes hands only together with others  *)
(* of the same holder, and every change of hands is appended to its ledger *)
(* with the holder it really had and the one it now has.                   *)
(***************************************************************************)
EXTENDS Sequences

CONSTANTS
    Item,
    User,
    None    \* the holder of an item that does not exist

VARIABLES
    holder,  \* holder[i]: the owner of i, or None
    ledger   \* ledger[i]: the transfers of i, oldest first

ledgerVars == <<holder, ledger>>

Move == [from : User, to : User]

Init ==
    /\ holder = [i \in Item |-> None]
    /\ ledger = [i \in Item |-> <<>>]

Register(i, u) ==
    /\ holder[i] = None
    /\ holder' = [holder EXCEPT ![i] = u]
    /\ UNCHANGED ledger

(* All of S goes from one holder to another, or nothing does.              *)
Transfer(S, s, t) ==
    /\ s # t
    /\ \A i \in S : holder[i] = s
    /\ holder' = [i \in Item |-> IF i \in S THEN t ELSE holder[i]]
    /\ ledger' = [i \in Item |-> IF i \in S
                                 THEN Append(ledger[i], [from |-> s, to |-> t])
                                 ELSE ledger[i]]

Remove(i) ==
    /\ holder' = [holder EXCEPT ![i] = None]
    /\ ledger' = [ledger EXCEPT ![i] = <<>>]

Next ==
    \/ \E i \in Item, u \in User : Register(i, u)
    \/ \E S \in SUBSET Item, s, t \in User : Transfer(S, s, t)
    \/ \E i \in Item : Remove(i)

Spec == Init /\ [][Next]_ledgerVars
=============================================================================
