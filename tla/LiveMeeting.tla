----------------------------- MODULE LiveMeeting -----------------------------
(***************************************************************************)
(* A live meeting (services/live-meeting.ts): the browser posts chunks of   *)
(* audio, each is transcribed together with all before it, the transcript   *)
(* is analysed in the background, analyses start research, and the stop of  *)
(* the session writes the record of the meeting.                            *)
(*                                                                         *)
(* A text is what it is the text of: the first so many chunks.              *)
(***************************************************************************)
EXTENDS Integers, Sequences, FiniteSets

CONSTANTS
  MaxChunks,     \* bound: chunks of audio
  MaxResearch    \* bound: research that analyses ask for

ASSUME MeetingAssumption == MaxChunks \in Nat /\ MaxResearch \in Nat

VARIABLES
  meeting,     \* status of the session; "gone" when it is cleaned up
  chunk,       \* what became of each chunk
  transcript,  \* session.transcript
  segments,    \* session.segments, each from one length of the text to another
  lock,        \* analysisLocks
  analyses,    \* analyses at work
  research,    \* research that was started, and that is at work
  found,       \* session.insights and actionItems
  record       \* rows in meetings

meetingVars ==
  <<meeting, chunk, transcript, segments, lock, analyses, research, found, record>>

Chunk == 1 .. MaxChunks

MeetingTypeOK ==
  /\ meeting \in {"none", "recording", "processing", "completed", "gone"}
  /\ chunk \in [Chunk -> [is : {"none", "transcribing", "answered", "failed"},
                          spoken : BOOLEAN, before : Nat]]
  /\ transcript \in 0 .. MaxChunks
  /\ segments \in Seq([from : Nat, to : Nat])
  /\ lock \in BOOLEAN /\ analyses \in Nat
  /\ research \in [started : 0 .. MaxResearch, open : 0 .. MaxResearch]
  /\ found \in Nat
  /\ record \in Seq([transcript : Nat, found : Nat])

MeetingInit ==
  /\ meeting = "none"
  /\ chunk = [c \in Chunk |-> [is |-> "none", spoken |-> FALSE, before |-> 0]]
  /\ transcript = 0 /\ segments = <<>>
  /\ lock = FALSE /\ analyses = 0
  /\ research = [started |-> 0, open |-> 0]
  /\ found = 0 /\ record = <<>>

\* The length of the text of the first n chunks: silence adds nothing.
TextLength(n) == Cardinality({c \in 1 .. n : chunk[c].spoken})

startSession ==
  /\ meeting = "none" /\ meeting' = "recording"
  /\ UNCHANGED <<chunk, transcript, segments, lock, analyses, research, found, record>>

\* processChunk up to the transcription
ChunkArrives(c) ==
  /\ meeting = "recording"
  /\ chunk[c].is = "none" /\ \A b \in 1 .. c - 1 : chunk[b].is # "none"
  /\ \E spoken \in BOOLEAN :
       chunk' = [chunk EXCEPT ![c] = [is |-> "transcribing", spoken |-> spoken,
                                      before |-> TextLength(transcript)]]
  /\ UNCHANGED <<meeting, transcript, segments, lock, analyses, research, found, record>>

\* mutant: the lock is all that is looked at.
MayAnalyseAlways(n) == ~lock /\ TextLength(n) > 0

\* runAnalysis of a text: not beside another, nor for a session cleaned up.
MayAnalyse(n) == ~lock /\ meeting # "gone" /\ TextLength(n) > 0

\* What is new in the text of c; a text that is not longer counts as new from
\* its beginning on.
NewText(c) ==
  [from |-> IF TextLength(c) > chunk[c].before THEN chunk[c].before ELSE 0, to |-> TextLength(c)]

\* The transcription answers, in whatever order, and be the session stopped.
Transcribed(c) ==
  /\ chunk[c].is = "transcribing"
  /\ chunk' = [chunk EXCEPT ![c].is = "answered"]
  /\ transcript' = c
  /\ segments' = IF TextLength(c) > 0 THEN Append(segments, NewText(c)) ELSE segments
  /\ IF MayAnalyse(c) THEN lock' = TRUE /\ analyses' = analyses + 1
     ELSE UNCHANGED <<lock, analyses>>
  /\ UNCHANGED <<meeting, research, found, record>>

\* It fails: the audio stays and is transcribed with the next chunk.
TranscriptionFails(c) ==
  /\ chunk[c].is = "transcribing"
  /\ chunk' = [chunk EXCEPT ![c].is = "failed"]
  /\ UNCHANGED <<meeting, transcript, segments, lock, analyses, research, found, record>>

\* An analysis ends, with or without an insight and something to look up, or
\* unreadable.  Research starts unless the session is gone.
AnalysisEnds ==
  /\ analyses > 0 /\ analyses' = analyses - 1
  /\ \E read \in BOOLEAN, learnt, asked \in 0 .. 1 :
       /\ read \/ learnt + asked = 0
       /\ asked = 1 => research.started < MaxResearch /\ meeting # "gone"
       /\ lock' = FALSE
       /\ found' = found + learnt
       /\ research' = [started |-> research.started + asked, open |-> research.open + asked]
  /\ UNCHANGED <<meeting, chunk, transcript, segments, record>>

\* executeResearch ends, well or badly: an insight all the same.
ResearchEnds ==
  /\ research.open > 0
  /\ research' = [research EXCEPT !.open = @ - 1]
  /\ found' = found + 1
  /\ UNCHANGED <<meeting, chunk, transcript, segments, lock, analyses, record>>

\* stopSession; when the insert throws, the session stays in processing.
stopSession ==
  /\ meeting \in {"recording", "processing"}
  /\ \/ /\ meeting' = "completed"
        /\ record' = Append(record, [transcript |-> transcript, found |-> found])
     \/ meeting' = "processing" /\ UNCHANGED record
  /\ UNCHANGED <<chunk, transcript, segments, lock, analyses, research, found>>

\* A minute after the stop
CleanUp ==
  /\ meeting = "completed" /\ meeting' = "gone"
  /\ lock' = FALSE
  /\ UNCHANGED <<chunk, transcript, segments, analyses, research, found, record>>

MeetingNext ==
  \/ startSession \/ stopSession \/ CleanUp
  \/ \E c \in Chunk : ChunkArrives(c) \/ Transcribed(c) \/ TranscriptionFails(c)
  \/ AnalysisEnds \/ ResearchEnds

MeetingSpec == MeetingInit /\ [][MeetingNext]_meetingVars

----------------------------------------------------------------------------
(* Properties *)

\* "Uses a lock to prevent concurrent analysis for the same session"
\* (runAnalysis): also when chunks overlap, when one is answered after the stop
\* and when the clean-up drops the lock of an analysis at work; and no lock is
\* left behind.
OneAnalysis == analyses <= 1 /\ (lock => analyses = 1)
=============================================================================
