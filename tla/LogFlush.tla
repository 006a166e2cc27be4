------------------------------ MODULE LogFlush ------------------------------
(***************************************************************************)
(* sf2000_log_flush() of src/src/sf2000_log.c: asking the platform's logger*)
(* to write its journal to the card, through two files in /run.  The calls *)
(* come one after the other, from the browser and from core hosts; a       *)
(* caller may be killed by its watchdog in the middle of one.              *)
(*                                                                         *)
(* The logger is external.  It takes a request, persists the journal,      *)
(* creates the acknowledgement and writes the outcome into it, each in its *)
(* own time.                                                               *)
(***************************************************************************)
EXTENDS Naturals

CONSTANTS Attempts,   \* 100 attempts, 10 ms apart
          MaxJournal  \* bound: what is logged

ASSUME FlushAssumption == Attempts \in Nat \ {0} /\ MaxJournal \in Nat

VARIABLES
  caller, attempt,   \* where the call stands
  request,           \* LOG_FLUSH_REQUEST exists
  done,              \* LOG_FLUSH_DONE: "none", or what can be read from it
  logd,              \* where the logger stands
  linked,            \* the acknowledgement it has open is still LOG_FLUSH_DONE
  journal, card,     \* how much was logged, and is on the card
  asked, late,       \* history, from the start of the call: see LateAcksOnly
  result             \* what the last call returned

calling  == <<caller, attempt, result>>
logger   == <<logd, linked, card>>
history  == <<asked, late>>
logVars  == <<calling, request, done, logger, journal, history>>

Outcomes == {"ok", "error"}

LogInit ==
  /\ caller = "idle" /\ attempt = 0 /\ result = "none"
  /\ request = FALSE /\ done = "none"
  /\ logd = "idle" /\ linked = FALSE /\ journal = 0 /\ card = 0
  /\ asked = 0 /\ late = FALSE
-----------------------------------------------------------------------------
(* unlink(LOG_FLUSH_DONE): what is left of an earlier acknowledgement.     *)
Cleared_Kept == done
Cleared == "none"

BeginFlush ==
  /\ caller = "idle" /\ caller' = "request" /\ attempt' = 0 /\ result' = "none"
  /\ done' = Cleared /\ linked' = (linked /\ done' # "none")
  /\ asked' = journal /\ late' = (logd = "persisted")
  /\ UNCHANGED <<request, logd, card, journal>>

(* open() with O_CREAT; from here on the logger may see the request.       *)
CreateRequest ==
  /\ caller = "request" /\ caller' = "write" /\ request' = TRUE
  /\ UNCHANGED <<attempt, result, done, logger, journal, history>>

Returns(outcome) == caller' = "idle" /\ result' = outcome

CannotCreate ==
  /\ caller = "request" /\ Returns("failed")
  /\ UNCHANGED <<attempt, request, done, logger, journal, history>>

(* write_all() and close(): the reason, for the logger's record.           *)
WriteRequest ==
  /\ caller = "write" /\ caller' = "poll"
  /\ UNCHANGED <<attempt, result, request, done, logger, journal, history>>

WriteFails ==
  /\ caller = "write" /\ Returns("failed") /\ request' = FALSE
  /\ UNCHANGED <<attempt, done, logger, journal, history>>

(* One attempt: no acknowledgement, or one without its three bytes.        *)
Unanswered_Empty == done = "none"
Unanswered == done \in {"none", "empty"}

PollAgain ==
  /\ caller = "poll" /\ Unanswered
  /\ IF attempt + 1 < Attempts THEN attempt' = attempt + 1 /\ UNCHANGED <<caller, result>>
                               ELSE Returns("failed") /\ UNCHANGED attempt
  /\ UNCHANGED <<request, done, logger, journal, history>>

ReadAck ==
  /\ caller = "poll" /\ ~Unanswered
  /\ Returns(IF done = "error" THEN "failed" ELSE "flushed")
  /\ done' = "none" /\ linked' = FALSE
  /\ UNCHANGED <<attempt, request, logd, card, journal, history>>

(* The watchdog ends the caller; another process takes its place.          *)
CallerDies ==
  /\ caller # "idle" /\ Returns("none")
  /\ UNCHANGED <<attempt, request, done, logger, journal, history>>
-----------------------------------------------------------------------------
TakeRequest ==
  /\ logd = "idle" /\ request /\ logd' = "taken" /\ request' = FALSE
  /\ UNCHANGED <<calling, done, linked, card, journal, history>>

Persist ==
  /\ logd = "taken" /\ logd' = "persisted" /\ card' = journal
  /\ UNCHANGED <<calling, request, done, linked, journal, history>>

PersistFails ==
  /\ logd = "taken" /\ logd' = "failed"
  /\ UNCHANGED <<calling, request, done, linked, card, journal, history>>

CreateAck ==
  /\ logd \in {"persisted", "failed"}
  /\ logd' = IF logd = "persisted" THEN "ok" ELSE "error"
  /\ done' = "empty" /\ linked' = TRUE
  /\ UNCHANGED <<calling, request, card, journal, history>>

(* Into a file that may be unlinked by now.                                *)
WriteAck ==
  /\ logd \in Outcomes /\ logd' = "idle"
  /\ done' = IF linked THEN logd ELSE done
  /\ linked' = FALSE
  /\ UNCHANGED <<calling, request, card, journal, history>>

Log ==
  /\ journal < MaxJournal /\ journal' = journal + 1
  /\ UNCHANGED <<calling, request, done, logger, history>>

LogNext ==
  \/ BeginFlush \/ CreateRequest \/ CannotCreate \/ WriteRequest \/ WriteFails
  \/ PollAgain \/ ReadAck \/ CallerDies
  \/ TakeRequest \/ Persist \/ PersistFails \/ CreateAck \/ WriteAck \/ Log

LogSpec == LogInit /\ [][LogNext]_logVars
-----------------------------------------------------------------------------
LogTypeOK ==
  /\ caller \in {"idle", "request", "write", "poll"} /\ attempt \in 0 .. Attempts - 1
  /\ request \in BOOLEAN /\ done \in {"none", "empty"} \union Outcomes
  /\ logd \in {"idle", "taken", "persisted", "failed"} \union Outcomes
  /\ linked \in BOOLEAN /\ late \in BOOLEAN
  /\ journal \in Nat /\ card \in 0 .. journal /\ asked \in 0 .. journal
  /\ result \in {"none", "failed", "flushed"}

(* A call that reports a flush has what was logged before it on the card,  *)
(* whatever acknowledgements earlier calls that timed out, failed or died  *)
(* have left; only one that the logger had persisted for, and not yet      *)
(* created, when the call began is taken for its own.                      *)
LateAcksOnly == result = "flushed" /\ ~late => card >= asked

(* sf2000_log.h: "Ask sf2000-logd to persist its current RAM journal and   *)
(* wait for its ack."  What is then reported includes the late ones.       *)
AckMeansPersisted == result = "flushed" => card >= asked
=============================================================================
