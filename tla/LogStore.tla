------------------------------ MODULE LogStore ------------------------------
(***************************************************************************)
(* The in-memory call log (s11_call_logs/log_store.py, which s_full copies *)
(* as models/log.py) and the life of its flush loop.  Requests enqueue;    *)
(* the loop moves the buffer to the list that the admin routes read.  Each *)
(* operation holds the store's lock from beginning to end.                 *)
(***************************************************************************)
EXTENDS Naturals, Sequences

VARIABLES buffer,     \* _buffer
          flushed,    \* _flushed
          flusher     \* "off", "running", "stopping" (event set) or "ended"

storeVars == <<buffer, flushed, flusher>>

(* A store whose application's startup event runs, or does not.            *)
StoreInit(started) ==
    /\ buffer = <<>>
    /\ flushed = <<>>
    /\ flusher = IF started THEN "running" ELSE "off"

-----------------------------------------------------------------------------
(* Faults for the mutation runs: pop() for popleft(), a loop that is an    *)
(* `if', and a shutdown that relies on the loop for the last batch.        *)
DrainedBackwards ==
    /\ flushed' = flushed \o [i \in 1..Len(buffer) |-> buffer[Len(buffer) + 1 - i]]
    /\ buffer' = <<>>

OneRound ==
    /\ flusher \in {"running", "stopping"}
    /\ flushed' = flushed \o buffer
    /\ buffer' = <<>>
    /\ flusher' = "ended"

StoppedUndrained ==
    /\ flusher = "running"
    /\ flusher' = "stopping"
    /\ UNCHANGED <<buffer, flushed>>

-----------------------------------------------------------------------------
Enqueue(e) ==
    /\ buffer' = Append(buffer, e)
    /\ UNCHANGED <<flushed, flusher>>

(* drain_now                                                               *)
Drain ==
    /\ flushed' = flushed \o buffer
    /\ buffer' = <<>>

(* The loop wakes up, drains, and looks at the stop event before it sleeps *)
(* again.                                                                  *)
FlushRound ==
    /\ flusher \in {"running", "stopping"}
    /\ Drain
    /\ flusher' = IF flusher = "stopping" THEN "ended" ELSE flusher

(* The shutdown event: set the stop event, drain once more.                *)
StopFlusher ==
    /\ flusher = "running"
    /\ Drain
    /\ flusher' = "stopping"

(* What was enqueued, oldest first.                                        *)
Log == flushed \o buffer

Listed == {flushed[i] : i \in 1..Len(flushed)}

Occurrences(e) == {i \in 1..Len(Log) : Log[i] = e}
=============================================================================
