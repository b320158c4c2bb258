----------------------------- MODULE RunReaders -----------------------------
(***************************************************************************)
(* What einoai promises to those who read the log of a run, on top of what *)
(* RunLifecycle promises about the run.  A reader is given the entries     *)
(* after its place one by one, always the first that is still there.  It   *)
(* is told that a log has ended only when the run is over, and after it    *)
(* has found nothing more to read.  What was recorded between these two    *)
(* observations is the one thing that may be kept from it.                 *)
(***************************************************************************)
EXTENDS RunLifecycle

CONSTANTS Readers,
          Nobody     \* the run of a reader that has none yet

VARIABLES lost,      \* [Runs -> entries of the log that were there and are gone]
          reader,    \* [Readers -> its run, its place in the log, and what it found out]
          given      \* [Readers -> the entries it was given, with their places]

readerVars == <<reader, given>>
allVars == <<vars, lost, readerVars>>

End(r)  == lost[r] + Len(log[r])
Over(r) == r \in born /\ status[r] \notin Active

ReadersInit ==
    /\ Init
    /\ lost = [r \in Runs |-> 0]
    /\ reader = [u \in Readers |-> [run |-> Nobody, place |-> 0, found |-> "nothing"]]
    /\ given = [u \in Readers |-> <<>>]

\* A step of the runs.  A log that is forgotten is forgotten as a whole, and counted on.
RunStep ==
    /\ Next \/ UNCHANGED vars
    /\ lost' = [r \in Runs |-> IF log'[r] = <<>> THEN End(r) ELSE lost[r]]
    /\ UNCHANGED readerVars

\* A reader chooses a run and a place to go on from.
Come(u) ==
    /\ reader[u].run = Nobody
    /\ \E r \in born : \E place \in 0..End(r) :
         reader' = [reader EXCEPT ![u] = [run |-> r, place |-> place, found |-> "nothing"]]
    /\ UNCHANGED given

\* The first entry after its place that is still there.
Take(u) ==
    LET r == reader[u].run IN
    /\ reader[u].found = "nothing"
    /\ \E i \in 1..Len(log[r]) :
         /\ lost[r] + i > reader[u].place
         /\ i = 1 \/ lost[r] + i = reader[u].place + 1
         /\ reader' = [reader EXCEPT ![u].place = lost[r] + i]
         /\ given' = [given EXCEPT ![u] = Append(@, [id |-> lost[r] + i, event |-> log[r][i]])]

\* There is no such entry.
FindNothing(u) ==
    /\ reader[u].found = "nothing"
    /\ log[reader[u].run] = <<>> \/ End(reader[u].run) <= reader[u].place
    /\ reader' = [reader EXCEPT ![u].found = "dry"]
    /\ UNCHANGED given

Conclude(u) ==
    /\ reader[u].found = "dry" /\ Over(reader[u].run)
    /\ reader' = [reader EXCEPT ![u].found = "end"]
    /\ UNCHANGED given

\* It forgets what it found out: it will read again, or has given up.
AskAgain(u) ==
    /\ reader' = [reader EXCEPT ![u].found = "nothing"]
    /\ UNCHANGED given

ReaderStep(u) ==
    Come(u) \/ Take(u) \/ FindNothing(u) \/ Conclude(u) \/ AskAgain(u)

ReadersNext == RunStep \/ \E u \in Readers : ReaderStep(u) /\ UNCHANGED <<vars, lost>>

ReadersSpec == ReadersInit /\ [][ReadersNext]_allVars
=============================================================================
