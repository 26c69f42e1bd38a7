--------------------------- MODULE RunnerProtocol ---------------------------
(* The line protocol between RunnerProcess.execute (sandbox/runner_pool.py) *)
(* and the runner (sandbox/runner.py), over one stdin and one stdout pipe   *)
(* that the user's code can write to as well: execute() calls one after     *)
(* another, as its lock makes them, against one runner at a time.           *)
(*                                                                          *)
(* What is on the pipe is a sequence of tokens: an ordinary character, one  *)
(* that takes three bytes, one that UTF-8 cannot encode, a run of characters*)
(* over the stream limit, a newline, a sentinel.  A token carries, for the  *)
(* properties only, the code block it comes from and whether it went past   *)
(* sys.stdout.  Only bytes that a block had written to the pipe itself are  *)
(* "raw": os.write, os.system, C extensions, a process or thread it started.*)
EXTENDS Integers, SequencesExt

CONSTANTS
  MaxCalls,      \* bound: execute() calls, numbered from 1 as they come
  MaxWrites,     \* bound: writes of user code and helpers it starts
  Texts,         \* what one write may write: sequences of kinds
  MaxOutput,     \* max_output_bytes
  WaitsForPipes  \* does asyncio's wait() also wait for the pipes to close?

Sentinels == {"OUT", "OUT_END", "ERR", "ERR_END", "DONE"}
Kinds == Sentinels \cup {"x", "wide", "bad", "huge", "nl", "rc"}

\* What the server puts in an outcome: what is left of a character cut in two, its
\* own line about a runner that ended, the marker that says how much was dropped.
Added == {"cut", "note", "mark"}

ASSUME ProtocolBounds ==
  /\ {MaxCalls, MaxWrites, MaxOutput} \subseteq Nat
  /\ Texts \subseteq Seq(Kinds) /\ WaitsForPipes \in BOOLEAN

Call == 1..MaxCalls
Background == 0    \* stands for the block of a token that no block wrote
NoCode == -1       \* return_code of a call that the runner did not answer

VARIABLES
  calls,   \* calls made so far: the latest is the one being served
  phase,   \* the server: "idle", or what the call waits for
  big,     \* is its code more than the pipe and the transport buffer take?
  after,   \* the outcome it returns once its stop() is over
  sect,    \* in_section: "none", "stdout" or "stderr"
  buf,     \* section_buf
  text,    \* stdout_text and stderr_text
  at,      \* the runner: "none", "loop", "run", "frame" (it writes), "dead"
  stdin,   \* blocks on its stdin
  said,    \* stdout_buf and stderr_buf of the block it ran last, and which
  chunks,  \* what _write_frame and _write_done have still to write
  wire,    \* what is on its stdout
  helper,  \* is there a process with its pipes, or a thread, that a block started?
  flood,   \* is a block or a helper writing to its stdout without a pause?
  writes,  \* how many of them so far
  raw,     \* history: was there a raw write or a helper in this life?
  tear,    \* history: and a DONE or an overlong line that is not the runner's?
  last     \* history: the latest outcome, until the next call

reader == <<sect, buf, text>>
runner == <<at, stdin, said, chunks>>
user == <<helper, flood, writes, raw, tear>>
vars == <<calls, phase, big, after, reader, runner, wire, user, last>>

Token == [k : Kinds, by : 0..MaxCalls, raw : BOOLEAN]
Shown == [k : Kinds \cup Added, by : 0..MaxCalls, raw : BOOLEAN]
Streams == {"stdout", "stderr"}
Empty == [s \in Streams |-> <<>>]
Outcome == [call : 0..MaxCalls, kind : {"none", "answered", "exited", "timed_out",
                                        "pipe_closed", "error"},
            text : [Streams -> Seq(Shown)], code : -1..MaxCalls, cut : BOOLEAN,
            saw : {"none", "loop", "run", "frame", "dead"}]

Tokens(ks, by, past) == [i \in DOMAIN ks |-> [k |-> ks[i], by |-> by, raw |-> past]]
Has(s, ks) == \E i \in DOMAIN s : s[i].k \in ks
EndsLine(s) == s # <<>> /\ s[Len(s)].k = "nl"

----------------------------------------------------------------------------
(* limits.py: truncation.                                                  *)

\* Characters of three bytes: U+FFFD, which stands for one cut in two, is one itself.
Wide(s) == {i \in DOMAIN s : s[i].k \in {"wide", "cut"}}
Size(s) == Len(s) + 2 * Cardinality(Wide(s))

\* Text of the server's own.
Inserted(kind) == <<[k |-> kind, by |-> Background, raw |-> FALSE]>>

\* Fault: it counts characters.
TruncateChars(s) ==
  IF Len(s) <= MaxOutput THEN s ELSE SubSeq(s, 1, MaxOutput) \o Inserted("mark")

\* The first bytes of a text too long: whole characters, then one that is cut.
Clipped(s) ==
  LET n == CHOOSE n \in 0..Len(s) - 1 :
             /\ Size(SubSeq(s, 1, n)) <= MaxOutput
             /\ Size(SubSeq(s, 1, n + 1)) > MaxOutput
      kept == SubSeq(s, 1, n)
  IN IF Size(kept) = MaxOutput THEN kept
     ELSE Append(kept, [s[n + 1] EXCEPT !.k = "cut"])

\* truncate_output; the marker comes after the bytes that are kept.
Truncate(s) == IF Size(s) <= MaxOutput THEN s ELSE Clipped(s) \o Inserted("mark")

----------------------------------------------------------------------------
(* runner.py: the frames of an answer.                                     *)

Line(ks, by) == Tokens(Append(ks, "nl"), by, FALSE)

\* Fault: no newline is added to text that lacks one.
FrameGlued(tag, s, end, by) == <<Line(<<tag>>, by), s, Line(<<end>>, by)>>

\* _write_frame: one os.write each.
Frame(tag, s, end, by) ==
  <<Line(<<tag>>, by), s>>
    \o (IF EndsLine(s) THEN <<>> ELSE <<Line(<<>>, by)>>)
    \o <<Line(<<end>>, by)>>

Frames == Frame("OUT", said.stdout, "OUT_END", said.by)
            \o Frame("ERR", said.stderr, "ERR_END", said.by)
            \o <<Line(<<"DONE", "rc">>, said.by)>>

----------------------------------------------------------------------------
Silence(b) == [stdout |-> <<>>, stderr |-> <<>>, by |-> b]
Pending == [call |-> 0, kind |-> "none", text |-> Empty, code |-> NoCode,
            cut |-> FALSE, saw |-> "none"]

Init ==
  /\ calls = 0 /\ phase = "idle" /\ big = FALSE
  /\ sect = "none" /\ buf = <<>> /\ text = Empty
  /\ at = "none" /\ stdin = <<>> /\ said = Silence(0) /\ chunks = <<>> /\ wire = <<>>
  /\ helper = FALSE /\ flood = FALSE /\ writes = 0 /\ raw = FALSE /\ tear = FALSE
  /\ last = Pending /\ after = Pending

\* The outcome of the call in progress.  `cut` is limit_exceeded = OUTPUT_BYTES,
\* where no other limit is reported.
Result(kind, full, code) ==
  [call |-> calls, kind |-> kind, text |-> [s \in Streams |-> Truncate(full[s])],
   code |-> code, cut |-> \E s \in Streams : Size(full[s]) > MaxOutput, saw |-> at]

\* The locals of execute() and _read_until_done.
FreshLocals == sect' = "none" /\ buf' = <<>> /\ text' = Empty /\ after' = Pending

Return(o) == phase' = "idle" /\ last' = o /\ FreshLocals

\* Whoever had the old subprocess's pipes has nobody at the other end now.
Forget == /\ at' = "none" /\ stdin' = <<>> /\ wire' = <<>> /\ chunks' = <<>>
          /\ helper' = FALSE /\ flood' = FALSE
          /\ UNCHANGED said

\* The end of the runner's process.  A helper that is a thread ends next.
RunnerEnds ==
  /\ at' = "dead" /\ chunks' = <<>> /\ flood' = (flood /\ helper)
  /\ UNCHANGED <<stdin, said, wire, helper>>

\* stop() signals the runner and waits for its end.
Stop(o) == /\ phase' = "stop" /\ after' = o /\ RunnerEnds
           /\ UNCHANGED <<reader, last>>

----------------------------------------------------------------------------
(* runner_pool.py: execute().                                              *)

\* The code goes to the runner; a new one is started if there is none, or if
\* the death of the old one is known.
BeginCall ==
  /\ phase = "idle" /\ calls < MaxCalls
  /\ calls' = calls + 1 /\ phase' = "send" /\ big' \in BOOLEAN
  /\ last' = Pending
  /\ \/ /\ at \in {"none", "dead"}
        /\ at' = "loop" /\ stdin' = <<calls'>> /\ said' = Silence(0)
        /\ chunks' = <<>> /\ wire' = <<>>
        /\ helper' = FALSE /\ flood' = FALSE /\ raw' = FALSE /\ tear' = FALSE
     \/ /\ at # "none"
        /\ stdin' = Append(stdin, calls')
        /\ UNCHANGED <<at, said, chunks, wire, helper, flood, raw, tear>>
  /\ UNCHANGED <<after, reader, writes>>

\* drain() returns: all of it fits the buffers, or the runner has taken it.
Sent ==
  /\ phase = "send" /\ (big => calls \notin ToSet(stdin))
  /\ phase' = "read" /\ big' = FALSE
  /\ UNCHANGED <<calls, after, reader, runner, wire, user, last>>

\* Nobody has the reading end of its stdin any more.
SendFails ==
  /\ phase = "send" /\ at = "dead" /\ ~helper
  /\ Stop(Result("pipe_closed", Empty, NoCode))
  /\ big' = FALSE
  /\ UNCHANGED <<calls, writes, raw, tear>>

\* Everything that can write to the pipe has closed it.
Eof == at = "dead" /\ ~helper

\* The first line, with its newline, or all there is of it.
FirstLine ==
  IF Has(wire, {"nl"})
    THEN SubSeq(wire, 1, CHOOSE n \in DOMAIN wire :
                           wire[n].k = "nl" /\ ~Has(SubSeq(wire, 1, n - 1), {"nl"}))
    ELSE wire
AfterLine == SubSeq(wire, Len(FirstLine) + 1, Len(wire))
Stripped == IF EndsLine(FirstLine) THEN Front(FirstLine) ELSE FirstLine
Overlong == Has(FirstLine, {"huge"})

\* A line that is the sentinel and nothing else.
Is(sentinel) == Len(Stripped) = 1 /\ Stripped[1].k = sentinel

Open(s) == sect' = s /\ buf' = <<>> /\ UNCHANGED <<text, phase, after, last>>

\* The parser takes off one newline, whoever wrote it.
Chop(s) == IF EndsLine(s) THEN Front(s) ELSE s

\* section_buf keeps what it holds.
Close(s) == /\ sect' = "none" /\ text' = [text EXCEPT ![s] = Chop(buf)]
            /\ UNCHANGED <<buf, phase, after, last>>

\* Fault: a DONE line without a number gets a code of its own.
ReturnCodeOther == IF Len(Stripped) = 2 /\ Stripped[2].k = "rc" THEN Stripped[2].by ELSE -2

\* int() of what follows the sentinel on its line.
ReturnCode == IF Len(Stripped) = 2 /\ Stripped[2].k = "rc" THEN Stripped[2].by ELSE NoCode

\* One round of _read_until_done: a line, or what is left before end-of-file.
ReadLine ==
  /\ phase = "read" /\ ~Overlong
  /\ Has(wire, {"nl"}) \/ (Eof /\ wire # <<>>)
  /\ wire' = AfterLine
  /\ CASE Is("OUT") -> Open("stdout")
       [] Is("OUT_END") -> Close("stdout")
       [] Is("ERR") -> Open("stderr")
       [] Is("ERR_END") -> Close("stderr")
       [] Stripped # <<>> /\ Stripped[1].k = "DONE" ->
            Return(Result("answered", text, ReturnCode))
       [] OTHER ->
            /\ buf' = IF sect = "none" THEN buf ELSE buf \o FirstLine
            /\ UNCHANGED <<sect, text, phase, after, last>>
  /\ UNCHANGED <<calls, big, runner, user>>

\* readline() raises ValueError and drops the line, if it is all in the buffer,
\* or else what there is of it: perhaps all of the overlong run of characters,
\* perhaps less.  The runner is left as it is.
ReadOverlong ==
  /\ phase = "read" /\ Overlong
  /\ \/ wire' = AfterLine
     \/ \E i \in DOMAIN FirstLine : \E n \in {i, i + 1} :
          wire[i].k = "huge" /\ wire' = SubSeq(wire, n, Len(wire))
  /\ Return(Result("error", Empty, NoCode))
  /\ UNCHANGED <<calls, big, runner, user>>

\* stop() finds the runner reaped and has nothing to wait for.  The line about its
\* end goes to stderr, ahead of the truncation.
ReadEof ==
  /\ phase = "read" /\ Eof /\ wire = <<>>
  /\ Return(Result("exited", [text EXCEPT !["stderr"] = @ \o Inserted("note")], NoCode))
  /\ Forget
  /\ UNCHANGED <<calls, big, writes, raw, tear>>

\* Fault: a call that times out leaves the runner to the next one.
TimeOutKeepsRunner ==
  /\ phase = "read" /\ Return(Result("timed_out", text, NoCode))
  /\ UNCHANGED <<calls, big, runner, wire, user>>

\* Fault: the timeout is one for silence on the pipe.
TimeOutIfSilent ==
  /\ phase = "read" /\ wire = <<>>
  /\ Stop(Result("timed_out", Empty, NoCode))
  /\ UNCHANGED <<calls, big, writes, raw, tear>>

\* timeout_seconds have passed.  A runner known to be dead is not drained.  (The
\* line for stderr, like that of a pipe closed, is not truncated and left out.)
TimeOut ==
  /\ phase = "read"
  /\ \/ /\ phase' = "drain" /\ sect' = "none" /\ buf' = <<>> /\ text' = Empty
        /\ UNCHANGED <<runner, wire, helper, flood, after, last>>
     \/ /\ at = "dead"
        /\ Return(Result("timed_out", Empty, NoCode))
        /\ Forget
  /\ UNCHANGED <<calls, big, writes, raw, tear>>

\* _drain_partial_stdout ends after 50 ms of silence or at end-of-file, with
\* everything that was on the pipe; only then stop() ends the block.
Drained ==
  /\ phase = "drain" /\ ~flood
  /\ Stop(Result("timed_out", [Empty EXCEPT !.stdout = wire], NoCode))
  /\ UNCHANGED <<calls, big, writes, raw, tear>>

\* The runner is dead, killed if need be.
Stopped ==
  /\ phase = "stop" /\ (WaitsForPipes => ~helper)
  /\ Return(after)
  /\ Forget
  /\ UNCHANGED <<calls, big, writes, raw, tear>>

----------------------------------------------------------------------------
(* runner.py: run(), and the user's code in it.                            *)

server == <<calls, phase, big, after, reader, last>>

ReadCode ==
  /\ at = "loop" /\ stdin # <<>>
  /\ at' = "run"
  /\ said' = Silence(Head(stdin))
  /\ stdin' = Tail(stdin)
  /\ UNCHANGED <<server, chunks, wire, user>>

\* User code writes, or starts a helper, once more.
Writes(ks) == /\ writes < MaxWrites /\ writes' = writes + 1
              /\ tear' = (tear \/ \E i \in DOMAIN ks : ks[i] \in {"DONE", "huge"})

\* Fault: sys.stdout is left as it is.
PrintUnbuffered(s, ks) ==
  /\ at = "run" /\ Writes(ks)
  /\ wire' = wire \o Tokens(ks, said.by, FALSE)
  /\ UNCHANGED <<server, runner, helper, flood, raw>>

\* print(): the text is kept until the block has ended.
PrintText(s, ks) ==
  /\ at = "run" /\ Writes(ks)
  /\ said' = [said EXCEPT ![s] = @ \o Tokens(ks, said.by, FALSE)]
  /\ UNCHANGED <<server, at, stdin, chunks, wire, helper, flood, raw>>

RawWrite(ks) ==
  /\ at = "run" /\ Writes(ks) /\ "bad" \notin ToSet(ks)
  /\ wire' = wire \o Tokens(ks, said.by, TRUE)
  /\ raw' = TRUE
  /\ UNCHANGED <<server, runner, helper, flood>>

StartHelper ==
  /\ at = "run" /\ ~helper /\ Writes(<<>>)
  /\ helper' = TRUE /\ raw' = TRUE
  /\ UNCHANGED <<server, runner, wire, flood>>

HelperWrites(ks) ==
  /\ helper /\ Writes(ks) /\ "bad" \notin ToSet(ks)
  /\ wire' = wire \o Tokens(ks, Background, TRUE)
  /\ UNCHANGED <<server, runner, helper, flood, raw>>

HelperEnds ==
  /\ helper
  /\ helper' = FALSE /\ flood' = (flood /\ at = "run")
  /\ UNCHANGED <<server, runner, wire, writes, raw, tear>>

\* The block or a helper begins or ends writing to the pipe without a pause, which
\* only the drain notices.  (What it writes so is not counted.)
Flood ==
  /\ phase = "drain" /\ (at = "run" \/ helper) /\ flood' = ~flood
  /\ raw' = TRUE
  /\ UNCHANGED <<server, runner, wire, helper, writes, tear>>

\* The block returns, raises or calls sys.exit().
Finish ==
  /\ at = "run"
  /\ at' = "frame" /\ chunks' = Frames /\ flood' = (flood /\ helper)
  /\ UNCHANGED <<server, stdin, said, wire, helper, writes, raw, tear>>

WriteChunk ==
  /\ at = "frame" /\ ~Has(Head(chunks), {"bad"})
  /\ wire' = wire \o Head(chunks)
  /\ chunks' = Tail(chunks)
  /\ at' = IF chunks' = <<>> THEN "loop" ELSE "frame"
  /\ UNCHANGED <<server, stdin, said, user>>

\* The runner dies anywhere, and of text that it cannot encode for certain.
Die ==
  /\ at \in {"loop", "run", "frame"}
  /\ RunnerEnds
  /\ UNCHANGED <<server, writes, raw, tear>>

Server == \/ BeginCall \/ Sent \/ SendFails \/ ReadLine \/ ReadOverlong \/ ReadEof
          \/ TimeOut \/ Drained \/ Stopped

Runner == ReadCode \/ Finish \/ WriteChunk \/ Die

User == \/ \E ks \in Texts :
             RawWrite(ks) \/ HelperWrites(ks) \/ \E s \in Streams : PrintText(s, ks)
        \/ StartHelper \/ HelperEnds \/ Flood

Next == Server \/ Runner \/ User

Spec == Init /\ [][Next]_vars

\* The event loop runs what is ready, timers fire, signals arrive and a runner
\* that waits for its next block reads it.  A pause in the writing is one of 50 ms:
\* the drain does not miss it.  Nothing is asked of user code.
Fairness == /\ WF_vars(Sent) /\ WF_vars(SendFails) /\ WF_vars(TimeOut)
            /\ SF_vars(Drained) /\ WF_vars(Stopped) /\ WF_vars(ReadCode)

LiveSpec == Spec /\ Fairness
----------------------------------------------------------------------------
TypeOK ==
  /\ calls \in 0..MaxCalls /\ phase \in {"idle", "send", "read", "drain", "stop"}
  /\ big \in BOOLEAN /\ after \in Outcome /\ last \in Outcome
  /\ sect \in Streams \cup {"none"} /\ buf \in Seq(Token) /\ text \in [Streams -> Seq(Token)]
  /\ at \in {"none", "loop", "run", "frame", "dead"}
  /\ stdin \in Seq(Call) /\ chunks \in Seq(Seq(Token)) /\ wire \in Seq(Token)
  /\ said \in [stdout : Seq(Token), stderr : Seq(Token), by : 0..MaxCalls]
  /\ {helper, flood, raw, tear} \subseteq BOOLEAN
  /\ writes \in 0..MaxWrites

Returned(kind) == phase = "idle" /\ last.kind = kind

\* Whatever else user code writes between, inside or across the frames, forged
\* section sentinels included, an answer is that of its own block: its return
\* code, and no text of an earlier block.  Only a DONE line or an overlong line
\* of the user's puts the two ends out of step (runner_pool.py:346, 297).
OwnAnswer ==
  Returned("answered") /\ ~tear =>
    /\ last.code = last.call
    /\ \A s \in Streams : \A i \in DOMAIN last.text[s] :
         last.text[s][i].by \in {last.call, Background}

\* Text that went through sys.stdout and sys.stderr and holds no sentinel comes
\* back whole: less one newline at its end, the user's own or the runner's, and
\* what truncation drops, which is reported (runner.py:86-92, limits.py:224-233).
FaithfulOutput ==
  /\ Returned("answered") /\ ~tear /\ ~raw
  /\ ~Has(said.stdout \o said.stderr, Sentinels)
  => /\ \A s \in Streams : last.text[s] = Truncate(Chop(said[s]))
     /\ last.cut = (\E s \in Streams : Size(Chop(said[s])) > MaxOutput)

\* A stream of an outcome takes no more than max_output_bytes or it was cut, says
\* so in one marker at its end, and takes at most two bytes more before it: the
\* replacement for a character cut in two is up to two bytes longer than what was
\* left of it (limits.py:224-233).
OutputBounded ==
  \A s \in Streams :
    LET t == last.text[s]
    IN IF Has(t, {"mark"})
         THEN /\ last.cut /\ t[Len(t)].k = "mark"
              /\ ~Has(Front(t), {"mark"}) /\ Size(Front(t)) <= MaxOutput + 2
         ELSE Size(t) <= MaxOutput

\* While the block runs, what it printed is in the runner and not on the pipe: a
\* call that times out then returns raw writes only.
PartialOutputIsRaw ==
  Returned("timed_out") /\ last.saw = "run" =>
    \A i \in DOMAIN last.text.stdout :
      last.text.stdout[i].raw \/ last.text.stdout[i].by # last.call

\* "pick up partial print() output" (runner_pool.py:58-60): a call that times
\* out while its block runs returns what the block has printed so far.
TimeoutReturnsPrinted ==
  Returned("timed_out") /\ last.saw = "run" /\ said.by = last.call /\ ~raw =>
    last.text.stdout = Truncate(said.stdout)

\* What can hold a call, and the lock, for ever: drain() on a runner that does
\* not read its stdin, the collection of partial output while the block itself (it
\* is not killed before) or a helper writes without a pause, and a wait() for the
\* pipes that a child of the runner keeps open.
Held == \/ phase = "send" /\ big /\ (at \in {"run", "frame"} \/ helper)
        \/ phase = "drain" /\ flood
        \/ phase = "stop" /\ WaitsForPipes /\ helper

\* Nothing else does: every call ends otherwise, whatever else its block does, be
\* it to sleep for ever, to die or to write frames of its own.
CallEnds == <>[](phase # "idle") => <>[]Held
=============================================================================
