----------------------------- MODULE RomLibrary -----------------------------
(***************************************************************************)
(* What a ROM library promises its users, whatever the upload protocol,    *)
(* the staging files and the crashes behind it: a name holds nothing or    *)
(* the whole file of one transfer, a transfer fills its name at most once  *)
(* and only while it is open, and a file leaves only by deletion.          *)
(***************************************************************************)
CONSTANTS Transfers, Names, Name, Free

VARIABLES
    shelf,  \* shelf[n]: the transfer whose file has the name n, or Free
    open    \* the transfers that may still publish

LibraryInit ==
    /\ shelf = [n \in Names |-> Free]
    /\ open = Transfers

\* An open transfer publishes its file under a free name.
Publish(t) ==
    /\ t \in open
    /\ shelf[Name[t]] = Free
    /\ shelf' = [shelf EXCEPT ![Name[t]] = t]
    /\ open' = open \ {t}

\* Transfers end without a file; a crash ends several at once.
Drop ==
    /\ open' \in SUBSET open
    /\ UNCHANGED shelf

Remove(n) ==
    /\ shelf[n] # Free
    /\ shelf' = [shelf EXCEPT ![n] = Free]
    /\ UNCHANGED open

LibraryNext ==
    \/ \E t \in Transfers : Publish(t)
    \/ Drop
    \/ \E n \in Names : Remove(n)

LibrarySpec == LibraryInit /\ [][LibraryNext]_<<shelf, open>>
=============================================================================
