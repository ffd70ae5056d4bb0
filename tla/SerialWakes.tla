----------------------------- MODULE SerialWakes -----------------------------
(***************************************************************************)
(* What runtime/systemd_runner.py promises of a checkout on which wakes      *)
(* overlap, without lock, processes, summaries or signals: one wake at a     *)
(* time is at work, it goes through its phases in one order and may give up  *)
(* at any time, and it reaches the worker only when recovery asked for it    *)
(* and it has read again whatever it merged.                                 *)
(***************************************************************************)
CONSTANT Wake

VARIABLES phase,   \* of each wake; "away" before and after its work
          unread,  \* it merged and has not refreshed since
          asked    \* recovery asked for the worker

vars == <<phase, unread, asked>>

AtWork(w) == phase[w] # "away"

Init ==
    /\ phase = [w \in Wake |-> "away"]
    /\ unread = [w \in Wake |-> FALSE]
    /\ asked = [w \in Wake |-> FALSE]

Move(w, from, to) == phase[w] = from /\ phase' = [phase EXCEPT ![w] = to]

Enter(w) ==
    /\ \A v \in Wake : ~AtWork(v)
    /\ Move(w, "away", "refresh_pre")
    /\ UNCHANGED <<unread, asked>>

Refresh(w) ==
    /\ Move(w, "refresh_pre", "finalizer_pre") \/ Move(w, "refresh_pre", "report")
    /\ UNCHANGED <<unread, asked>>

\* A merge is followed by another refresh or by the end of the wake.
Finalize(w) ==
    /\ \E merged \in BOOLEAN :
          /\ unread' = [unread EXCEPT ![w] = merged]
          /\ \/ ~merged /\ Move(w, "finalizer_pre", "recovery_pre_worker")
             \/ merged /\ Move(w, "finalizer_pre", "refresh_after_finalization")
             \/ Move(w, "finalizer_pre", "report")
    /\ UNCHANGED asked

RefreshAgain(w) ==
    /\ \/ /\ Move(w, "refresh_after_finalization", "recovery_pre_worker")
          /\ unread' = [unread EXCEPT ![w] = FALSE]
       \/ /\ Move(w, "refresh_after_finalization", "report")
          /\ UNCHANGED unread
    /\ UNCHANGED asked

Recover(w) ==
    /\ ~unread[w]
    /\ \/ /\ Move(w, "recovery_pre_worker", "adapter")
          /\ asked' = [asked EXCEPT ![w] = TRUE]
       \/ /\ Move(w, "recovery_pre_worker", "report")
          /\ UNCHANGED asked
    /\ UNCHANGED unread

Work(w) ==
    /\ asked[w] /\ ~unread[w]
    /\ Move(w, "adapter", "host_post_worker")
    /\ UNCHANGED <<unread, asked>>

FollowUp(w) ==
    /\ Move(w, "host_post_worker", "report")
    /\ UNCHANGED <<unread, asked>>

\* At its end, on an exception or an interrupt, or killed.
Leave(w) ==
    /\ AtWork(w)
    /\ phase' = [phase EXCEPT ![w] = "away"]
    /\ unread' = [unread EXCEPT ![w] = FALSE]
    /\ asked' = [asked EXCEPT ![w] = FALSE]

Next ==
    \E w \in Wake :
        \/ Enter(w) \/ Refresh(w) \/ Finalize(w) \/ RefreshAgain(w)
        \/ Recover(w) \/ Work(w) \/ FollowUp(w) \/ Leave(w)

Spec == Init /\ [][Next]_vars
=============================================================================
