------------------------ MODULE LogSequenceRectifier ------------------------
(***************************************************************************)
(* lcm/log_sequence_rectifier.cc: copies a log and puts messages that were *)
(* logged late where their timestamps belong, with a buffer of fixed       *)
(* length.                                                                 *)
(*                                                                         *)
(* A message is its place in the log.  The list that is sorted stably      *)
(* before its front is taken is a set here: equal timestamps stay in the   *)
(* order of the log, so the front is the least by timestamp, then place.   *)
(***************************************************************************)
EXTENDS Integers, Sequences, FiniteSets

CONSTANTS
    kBufferLength,
    Logs            \* the logs: sequences of timestamps

ASSUME RectifierAssumption ==
    /\ kBufferLength \in Nat \ {0}
    /\ Logs \subseteq Seq(Nat)

VARIABLES
    log,
    pc,             \* "reading", "flushing" or "done"
    read,           \* how many messages were read
    buffer, N,      \* the list and the counter beside it
    out,            \* what was written
    last_write_timestamp,
    error           \* whether "buffer size too small" was printed

vars == <<log, pc, read, buffer, N, out, last_write_timestamp, error>>

Init ==
    /\ log \in Logs
    /\ pc = "reading"
    /\ read = 0
    /\ buffer = {}
    /\ N = 0
    /\ out = <<>>
    /\ last_write_timestamp = 0
    /\ error = FALSE

\* The order of the sorted list.
Precedes(e, f) == log[e] < log[f] \/ (log[e] = log[f] /\ e <= f)

IsFront(e, list) == e \in list /\ \A f \in list : Precedes(e, f)

\* Mutant: two messages at the same time are taken for a failure.
TooLate_OrEqual(e) == log[e] <= last_write_timestamp

TooLate(e) == log[e] < last_write_timestamp

\* The front is written, compared with the one written before, and removed.
WriteFront(list, count) ==
    \E e \in list :
        /\ IsFront(e, list)
        /\ out' = Append(out, e)
        /\ error' = (error \/ TooLate(e))
        /\ last_write_timestamp' = log[e]
        /\ buffer' = list \ {e}
        /\ N' = count - 1

\* Mutant: the message is counted after the test.
Full_CountedAfter(count) == count - 1 = kBufferLength

\* "If buffer is long enough"
Full(count) == count = kBufferLength

ReadEvent ==
    /\ pc = "reading"
    /\ read < Len(log)
    /\ read' = read + 1
    /\ IF Full(N + 1)
       THEN WriteFront(buffer \cup {read + 1}, N + 1)
       ELSE /\ buffer' = buffer \cup {read + 1}
            /\ N' = N + 1
            /\ UNCHANGED <<out, last_write_timestamp, error>>
    /\ UNCHANGED <<log, pc>>

EndOfLog ==
    /\ pc = "reading"
    /\ read = Len(log)
    /\ pc' = "flushing"
    /\ UNCHANGED <<log, read, buffer, N, out, last_write_timestamp, error>>

\* "Write remaining messages"
Flush ==
    /\ pc = "flushing"
    /\ N > 0
    /\ WriteFront(buffer, N)
    /\ UNCHANGED <<log, pc, read>>

Finish ==
    /\ pc = "flushing"
    /\ N = 0
    /\ pc' = "done"
    /\ UNCHANGED <<log, read, buffer, N, out, last_write_timestamp, error>>

Next == ReadEvent \/ EndOfLog \/ Flush \/ Finish

Spec == Init /\ [][Next]_vars

------------------------------------------------------------------------------
(* Properties. *)

Messages == 1 .. Len(log)

Written == {out[i] : i \in DOMAIN out}

TypeOK ==
    /\ log \in Logs
    /\ pc \in {"reading", "flushing", "done"}
    /\ read \in 0 .. Len(log)
    /\ buffer \subseteq 1 .. read
    /\ N \in 0 .. kBufferLength
    /\ out \in Seq(Messages)
    /\ last_write_timestamp \in Nat
    /\ error \in BOOLEAN

\* The timestamps of the copy ascend.
Sorted == \A i, j \in DOMAIN out : i < j => log[out[i]] <= log[out[j]]

\* "An error message will be generated": the copy holds every message once, and
\* it is in sequence if and only if no error was printed.
SortedUnlessSaid ==
    /\ error <=> ~Sorted
    /\ \A i, j \in DOMAIN out : out[i] = out[j] => i = j
    /\ Written = (1 .. read) \ buffer
    /\ pc = "done" => Written = Messages

\* The messages logged before e that belong after it.
Overtaken(e) == {f \in Messages : f < e /\ log[f] > log[e]}

\* "The buffer must be large enough": the copy is out of sequence exactly if
\* some message comes after as many later ones as the buffer holds.
FailsIfTooSmall ==
    pc = "done" =>
        (error <=> \E e \in Messages : Cardinality(Overtaken(e)) >= kBufferLength)

\* Messages out of sequence are less than the buffer's length apart.
Close ==
    \A e, f \in Messages : f < e /\ log[f] > log[e] => e - f < kBufferLength

\* Then the copy is in sequence.
SortsCloseLogs == Close => ~error /\ Sorted
=============================================================================
