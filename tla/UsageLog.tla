------------------------------ MODULE UsageLog ------------------------------
(***************************************************************************)
(* The token usage log (usage_tracker.py) and the calls of the model that  *)
(* write and read it (generate_response in workflows/anthropic.py,         *)
(* _track_usage in workflows/anthropic_react.py).  One file of one line    *)
(* per answer is shared by all worker processes and their children; each   *)
(* call appends its line and then reads all lines.                         *)
(*                                                                         *)
(* A line is short enough for one write.  The file system keeps one write  *)
(* from another, but not from a reader, who may see the half of it; and a  *)
(* write may end short, when the disk is full, and be taken up again.  It  *)
(* is taken to be cut inside the entry, not just before the newline.       *)
(*                                                                         *)
(* Left out: the cache and latency columns, the average per minute, the    *)
(* report's layout.                                                        *)
(***************************************************************************)
EXTENDS Naturals, Sequences, FiniteSets, SequencesExt

CONSTANTS
  Callers,      \* the processes that call the model
  Sizes,        \* how many tokens an answer may take
  WindowTicks,  \* window_seconds
  MaxAnswers,   \* bound: answers of the provider
  MaxClock,     \* bound: the clock
  MaxTroubles   \* bound: writes cut short, file errors and deaths, in all

ASSUME UsageLogAssumption ==
  /\ Sizes \subseteq Nat \ {0} /\ Sizes # {}
  /\ {WindowTicks, MaxAnswers, MaxClock, MaxTroubles} \subseteq Nat

VARIABLES
  file,      \* the pieces of lines in the order in which they were written
  call,      \* call[c]: the call of process c, see CallState
  logged,    \* the entries whose append returned
  answers,   \* the answers so far, which number the entries
  clock,
  cut,       \* whether a write was ever cut short
  troubles

vars == <<file, call, logged, answers, clock, cut, troubles>>

\* UsageEntry.
Entry == [id : 1 .. MaxAnswers, at : 0 .. MaxClock, total_tokens : Sizes]

\* The tail of a line ends with the newline.
Piece == [entry : Entry, part : {"head", "tail"}]

\* A call that waits for its answer is idle.  rolling is the figure printed.
Clients == {"anthropic.respond", "anthropic.react"}
CallState == [pc      : {"idle", "append", "rest", "short", "read", "returned", "failed"},
              client  : Clients,
              entry   : Seq(Entry),
              rolling : Nat]
NoCall == [pc |-> "idle", client |-> "anthropic.respond", entry |-> <<>>, rolling |-> 0]

Init ==
  /\ file = <<>>
  /\ call = [c \in Callers |-> NoCall]
  /\ logged = {}
  /\ answers = 0 /\ clock = 0 /\ troubles = 0
  /\ cut = FALSE

Own(c) == call[c].entry[1]
Goto(c, pc) == call' = [call EXCEPT ![c].pc = pc]

\* Both clients mean to warn of an OSError and to go on, but anthropic_react.py does
\* not import sys, to whose stderr the warning goes: there the except clause raises
\* a NameError, and the node fails.
Warns(c) == call[c].client = "anthropic.respond"

\* Something goes wrong.
Trouble == troubles < MaxTroubles /\ troubles' = troubles + 1

-----------------------------------------------------------------------------
(* append_usage_entry *)

\* The provider answers; build_usage_entry stamps the entry.
Answered(c) ==
  /\ call[c].pc = "idle" /\ answers < MaxAnswers
  /\ \E n \in Sizes, client \in Clients :
       call' = [call EXCEPT ![c].pc = "append",
                            ![c].client = client,
                            ![c].entry = <<[id |-> answers + 1, at |-> clock, total_tokens |-> n]>>]
  /\ answers' = answers + 1
  /\ UNCHANGED <<file, logged, clock, cut, troubles>>

\* Mutant: the file is opened to be written, not to be appended to.
WritesAnew(c, part) ==
  /\ \A d \in Callers \ {c} : call[d].pc # "rest"
  /\ file' = Append(IF part = "head" THEN <<>> ELSE file, [entry |-> Own(c), part |-> part])

\* A piece comes to the end of the file, and not into another write.
Writes(c, part) ==
  /\ \A d \in Callers \ {c} : call[d].pc # "rest"
  /\ file' = Append(file, [entry |-> Own(c), part |-> part])

WriteHead(c) ==
  /\ call[c].pc = "append"
  /\ Writes(c, "head") /\ Goto(c, "rest")
  /\ UNCHANGED <<logged, answers, clock, cut, troubles>>

\* Mutant: the line has no end.
WriteTailWithoutNewline(c) ==
  /\ call[c].pc \in {"rest", "short"}
  /\ Goto(c, "read")
  /\ logged' = logged \union {Own(c)}
  /\ UNCHANGED <<file, answers, clock, cut, troubles>>

WriteTail(c) ==
  /\ call[c].pc \in {"rest", "short"}
  /\ Writes(c, "tail")
  /\ Goto(c, "read")
  /\ logged' = logged \union {Own(c)}
  /\ UNCHANGED <<answers, clock, cut, troubles>>

\* write() took a part only; flushing goes on with the next.
CutShort(c) ==
  /\ call[c].pc = "rest"
  /\ Trouble /\ Goto(c, "short")
  /\ cut' = TRUE
  /\ UNCHANGED <<file, logged, answers, clock>>

\* append_usage_entry raises an OSError; after a short write the disk may be full.
AppendFails(c) ==
  /\ \/ call[c].pc = "append" /\ Trouble
     \/ call[c].pc = "short" /\ UNCHANGED troubles
  /\ Goto(c, IF Warns(c) THEN "read" ELSE "failed")
  /\ UNCHANGED <<file, logged, answers, clock, cut>>

\* The process dies, or the child is terminated; the kernel ends a write.
Dies(c) ==
  /\ call[c].pc \in {"append", "short", "read"}
  /\ Trouble
  /\ call' = [call EXCEPT ![c] = NoCall]
  /\ UNCHANGED <<file, logged, answers, clock, cut>>

-----------------------------------------------------------------------------
(* read_usage_entries, summarize_usage, calculate_rolling_tpm *)

\* A line that json.loads takes is the head of an entry and its tail; anything
\* else, a line whose end is missing too, raises.
Readable ==
  /\ Len(file) % 2 = 0
  /\ \A i \in 1 .. Len(file) \div 2 :
       /\ file[2 * i - 1].part = "head" /\ file[2 * i].part = "tail"
       /\ file[2 * i - 1].entry = file[2 * i].entry

\* The entries that are read, where Readable.
Entries == [i \in 1 .. Len(file) \div 2 |-> file[2 * i].entry]

\* summarize_usage(entries).total_tokens.
Tokens(entries) == [i \in DOMAIN entries |-> entries[i].total_tokens]
TotalTokens(entries) == SumFunction(Tokens(entries))

\* Mutant: the end of the window is not part of it.
RollingHalfOpen(entries, now) ==
  SumFunctionOnSet(Tokens(entries),
    {i \in DOMAIN entries : entries[i].at < now /\ now <= entries[i].at + WindowTicks})

\* calculate_rolling_tpm.
Rolling(entries, now) ==
  SumFunctionOnSet(Tokens(entries),
    {i \in DOMAIN entries : entries[i].at <= now /\ now <= entries[i].at + WindowTicks})

\* Nothing catches the ValueError of json.loads: the node fails, and with it the
\* answer that was paid for.
ReadLog(c) ==
  /\ call[c].pc = "read"
  /\ IF Readable
       THEN call' = [call EXCEPT ![c].pc = "returned", ![c].rolling = Rolling(Entries, clock)]
       ELSE Goto(c, "failed")
  /\ UNCHANGED <<file, logged, answers, clock, cut, troubles>>

\* read_usage_entries raises an OSError: where it is a warning, the call's own
\* tokens stand in.
ReadRaises(c) ==
  /\ call[c].pc = "read"
  /\ Trouble
  /\ IF Warns(c)
       THEN call' = [call EXCEPT ![c].pc = "returned", ![c].rolling = Own(c).total_tokens]
       ELSE Goto(c, "failed")
  /\ UNCHANGED <<file, logged, answers, clock, cut>>

GoOn(c) ==
  /\ call[c].pc \in {"returned", "failed"}
  /\ call' = [call EXCEPT ![c] = NoCall]
  /\ UNCHANGED <<file, logged, answers, clock, cut, troubles>>

Tick ==
  /\ clock < MaxClock
  /\ clock' = clock + 1
  /\ UNCHANGED <<file, call, logged, answers, cut, troubles>>

-----------------------------------------------------------------------------
Next ==
  \/ \E c \in Callers : \/ Answered(c) \/ WriteHead(c) \/ WriteTail(c) \/ CutShort(c)
                        \/ AppendFails(c) \/ Dies(c) \/ ReadLog(c) \/ ReadRaises(c) \/ GoOn(c)
  \/ Tick

Spec == Init /\ [][Next]_vars

-----------------------------------------------------------------------------
UsageTypeOK ==
  /\ file \in Seq(Piece)
  /\ call \in [Callers -> CallState]
  /\ \A c \in Callers : call[c].pc # "idle" => Len(call[c].entry) = 1
  /\ logged \subseteq Entry
  /\ answers \in 0 .. MaxAnswers /\ clock \in 0 .. MaxClock /\ troubles \in 0 .. MaxTroubles
  /\ cut \in BOOLEAN

\* The tokens of a set of entries.
TokensOf(set) == TotalTokens([e \in set |-> e])

\* The lifetime report is complete or there is none: whenever the file can be
\* read, it holds the entry of every append that returned, once, and none of an
\* append that failed half-way, whatever was written at the same time; so the
\* total it tells is that of the answers whose appends returned.
LogIsComplete ==
  Readable => /\ ToSet(Entries) = logged
              /\ Len(Entries) = Cardinality(logged)
              /\ TotalTokens(Entries) = TokensOf(logged)

\* A call whose answer was paid for fails only if it reads the log after a write,
\* of any process, was cut short, or while another process writes; or if it is one
\* of anthropic.react that a file error hits.  No other trouble of any process is
\* felt by a call.  (After a write that was cut short and not ended, every call of
\* every process fails, and its run with it or its attempt.)
AnswersAreLostToTroubles ==
  [][\A c \in Callers : call[c].pc # "failed" /\ call'[c].pc = "failed" =>
       \/ call[c].pc = "read" /\ (cut \/ \E d \in Callers : call[d].pc = "rest")
       \/ ~Warns(c) /\ (troubles' > troubles \/ call[c].pc = "short")]_vars

\* The rolling figure a call prints counts that call, though it was stamped
\* before the log was written and is looked for after, unless its append failed
\* or took longer than the window; and it counts no more than what was answered.
RollingCountsTheCall ==
  /\ UsageTypeOK
  /\ \A c \in Callers : call[c].pc = "returned" =>
       /\ Own(c) \in logged /\ clock <= Own(c).at + WindowTicks
            => call[c].rolling >= Own(c).total_tokens
       /\ call[c].rolling <= TokensOf(logged \union {Own(c)})
=============================================================================
