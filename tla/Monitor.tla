------------------------------- MODULE Monitor -------------------------------
(***************************************************************************)
(* What System.Threading.Monitor promises for one object: at any time at   *)
(* most one thread owns it, the owner may take it again, and it becomes    *)
(* free when the owner has left as often as it entered.  AwareLock and     *)
(* ObjHeader are shown to implement this specification.                    *)
(***************************************************************************)
EXTENDS Naturals

CONSTANTS Thread,    \* the threads of the process
          NoThread   \* NULL: the monitor is free

VARIABLES owner,     \* the thread that owns the monitor, or NoThread
          count      \* how many times the owner has entered it

mvars == <<owner, count>>

Init == owner = NoThread /\ count = 0

\* A free monitor is taken.
Acquire(t) == /\ owner = NoThread
              /\ owner' = t
              /\ count' = 1

\* The owner enters again.
Reenter(t) == /\ owner = t
              /\ count' = count + 1
              /\ UNCHANGED owner

\* The owner leaves one level; the last level frees the monitor.
Exit(t) == /\ owner = t
           /\ \/ /\ count > 1
                 /\ count' = count - 1
                 /\ UNCHANGED owner
              \/ /\ count = 1
                 /\ count' = 0
                 /\ owner' = NoThread

Next == \E t \in Thread : Acquire(t) \/ Reenter(t) \/ Exit(t)

Spec == Init /\ [][Next]_mvars
==============================================================================
