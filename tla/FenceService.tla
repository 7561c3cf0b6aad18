---------------------------- MODULE FenceService ----------------------------
(***************************************************************************)
(* What a guest or a client may rely on about fences, whoever completes    *)
(* them: a fence is created once and signalled at most once, and only      *)
(* after it was created.  That it is signalled in the end depends on the   *)
(* renderer and the peers, and is stated where they are modelled.          *)
(***************************************************************************)
EXTENDS Naturals

CONSTANT Fences

VARIABLES
    created,   \* fences asked for
    signals    \* how often each was signalled

Init ==
    /\ created = {}
    /\ signals = [f \in Fences |-> 0]

Create(f) ==
    /\ f \in Fences \ created
    /\ created' = created \cup {f}
    /\ UNCHANGED signals

Signal(f) ==
    /\ f \in created /\ signals[f] = 0
    /\ signals' = [signals EXCEPT ![f] = 1]
    /\ UNCHANGED created

\* The callback may come before the call that creates the fence returns.
CreateSignalled(f) ==
    /\ f \in Fences \ created
    /\ created' = created \cup {f}
    /\ signals' = [signals EXCEPT ![f] = 1]

Next == \E f \in Fences : Create(f) \/ Signal(f) \/ CreateSignalled(f)

Spec == Init /\ [][Next]_<<created, signals>>
=============================================================================
