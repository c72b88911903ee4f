---------------------------- MODULE OneTimeToken ----------------------------
(***************************************************************************)
(* What a single-use credential promises, without requests, rows or locks: *)
(* a token comes to life once, in the slot of one account and purpose,     *)
(* which holds one live token at a time; it ends spent or dead, and never  *)
(* changes again.                                                          *)
(***************************************************************************)
CONSTANTS
    Token,   \* tokens that may ever exist
    Slot,    \* what a token is for: an account and a purpose
    NoSlot   \* the slot of a token that was never issued

VARIABLES
    status,  \* status[t]: "unissued", "live", "spent" or "dead"
    slot     \* slot[t]: what t was issued for

tokenVars == <<status, slot>>

Status == {"unissued", "live", "spent", "dead"}

TypeOK ==
    /\ status \in [Token -> Status]
    /\ slot \in [Token -> Slot \cup {NoSlot}]

Init ==
    /\ status = [t \in Token |-> "unissued"]
    /\ slot = [t \in Token |-> NoSlot]

Live(s) == {t \in Token : status[t] = "live" /\ slot[t] = s}

(* A new token of a slot replaces the live one.                            *)
Issue(t, s) ==
    /\ status[t] = "unissued"
    /\ slot' = [slot EXCEPT ![t] = s]
    /\ status' = [x \in Token |-> IF x = t THEN "live"
                                  ELSE IF x \in Live(s) THEN "dead"
                                  ELSE status[x]]

(* A live token is spent; what it authorises may end other live tokens.    *)
Spend(t, S) ==
    /\ status[t] = "live"
    /\ \A x \in S : status[x] = "live"
    /\ status' = [x \in Token |-> IF x = t THEN "spent"
                                  ELSE IF x \in S THEN "dead"
                                  ELSE status[x]]
    /\ UNCHANGED slot

(* Live tokens expire or are withdrawn.                                    *)
Withdraw(S) ==
    /\ \A x \in S : status[x] = "live"
    /\ status' = [x \in Token |-> IF x \in S THEN "dead" ELSE status[x]]
    /\ UNCHANGED slot

Next ==
    \/ \E S \in SUBSET Token : Withdraw(S)
    \/ \E t \in Token, s \in Slot : Issue(t, s)
    \/ \E t \in Token, S \in SUBSET Token : Spend(t, S)

Spec == Init /\ [][Next]_tokenVars
=============================================================================
