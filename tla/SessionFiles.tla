---------------------------- MODULE SessionFiles ----------------------------
(* What the exec server writes in the directories of one session: the text   *)
(* editor (sandbox/text_editor.py), uploads (sandbox/files.py) and the       *)
(* _platform_tools stub (sandbox/platform_tools.py).                         *)
(*                                                                           *)
(* The handlers have no await between reading and writing, so that the event *)
(* loop runs one at a time; the REPL and every bash of the session are       *)
(* processes of their own that use the same files meanwhile.                 *)
(*                                                                           *)
(* A text is a sequence of characters, "n" a newline and "r" a carriage      *)
(* return; a stub module is its registration and the tools it defines.       *)
EXTENDS Naturals, SequencesExt

CONSTANTS
  Path,       \* files in one directory of the workspace
  Texts,      \* what is created, uploaded or written by the session's processes
  Olds, News, \* old_str and new_str
  ToolLists,  \* sequences of tool names a registration may carry
  Word,       \* identifiers that are no keyword
  TrailedWord,  \* such a word with a newline behind it
  Absent, Torn, \* no file (or no module loaded); a module cut off
  LineNos,    \* insert_line
  MaxOps,     \* bound: requests
  MaxForeign  \* bound: file operations of the session's processes

Chars == {"n"} \cup UNION {Range(t) : t \in Texts \cup Olds \cup News}
Text == Seq(Chars)
Read == Seq(Chars \ {"r"})  \* what read_text returns

ASSUME FilesBounds ==
  /\ MaxOps \in Nat /\ MaxForeign \in Nat /\ LineNos \subseteq Nat
  /\ Word \cap TrailedWord = {}

ASSUME TextsAreTexts == Texts \cup Olds \cup News \subseteq Text

\* No file is neither a path nor a content.
ASSUME AbsentIsNoText == Absent \notin Path \cup Texts \cup {<<>>}

VARIABLES
  doc,      \* the files of the workspace
  dir,      \* does their directory exist?
  locked,   \* files that cannot be opened to write: read-only, or not there and
            \* their directory read-only
  history,  \* undo_stack
  busy,     \* the write the server is in: its step, and what it writes where
  reply,    \* how the last request ended, until the next one on a file, and history:
            \* what it should have done
  stub,     \* _platform_tools.py
  loaded,   \* the module in sys.modules of the REPL
  latest,   \* history: the registration accepted and written last
  fresh,    \* history: was it read undisturbed, and none accepted since?
  over,     \* history: what each edit not undone has overwritten
  spoiled,  \* history: files that an edit or an undo_edit failed to open
  ops, foreign

stubs == <<stub, loaded, latest, fresh>>
vars == <<doc, dir, locked, history, busy, reply, stubs, over, spoiled, ops, foreign>>

NoText == <<>>
NoEdit == [text |-> NoText, after |-> 0, new |-> NoText]
\* A request at its write, and at its end; history: the content the file should
\* get, the edit that was asked for, and has anybody else written the file?
Idle == [step |-> "idle", op |-> "", path |-> Absent, data |-> NoText, linked |-> FALSE,
         want |-> NoText, edit |-> NoEdit, raced |-> FALSE]
NoReply == [op |-> "", how |-> "", path |-> Absent, want |-> NoText, edit |-> NoEdit,
            raced |-> FALSE]

Init ==
  /\ doc = [p \in Path |-> Absent] /\ dir = FALSE /\ locked = {}
  /\ history = [p \in Path |-> <<>>] /\ over = [p \in Path |-> <<>>]
  /\ spoiled = {}
  /\ busy = Idle /\ reply = NoReply
  /\ stub = Absent /\ loaded = Absent /\ latest = Absent /\ fresh = TRUE
  /\ ops = 0 /\ foreign = 0

----------------------------------------------------------------------------
(* Texts.                                                                  *)

\* Fault: the file is read with its line ends as they are.
ReadBytes(t) == t

\* The k-th of a set of positions.
Nth(S, k) == CHOOSE i \in S : Cardinality(S \cap (1..i)) = k

\* read_text: universal newlines.
ReadText(t) ==
  LET kept == DOMAIN t \ {i \in 2..Len(t) : t[i] = "n" /\ t[i-1] = "r"}
  IN  [k \in 1..Cardinality(kept) |->
         LET c == t[Nth(kept, k)] IN IF c = "r" THEN "n" ELSE c]

\* splitlines(keepends=True) of a text that read_text returned.
Ends(t) == {i \in DOMAIN t : t[i] = "n" \/ i = Len(t)}
End(t, k) == IF k = 0 THEN 0 ELSE Nth(Ends(t), k)
Lines(t) == [k \in 1..Cardinality(Ends(t)) |-> SubSeq(t, End(t, k - 1) + 1, End(t, k))]

Finished(t) == t # NoText /\ Last(t) = "n"

Payload(new) == IF Finished(new) THEN new ELSE Append(new, "n")

\* Fault: insert_line is the line to insert before.
InsertBefore(t, k, new) ==
  LET e == End(t, IF k = 0 THEN 0 ELSE k - 1)
  IN  SubSeq(t, 1, e) \o Payload(new) \o SubSeq(t, e + 1, Len(t))

\* The payload is one more line behind the k-th, and the lines are joined again.
Insert(t, k, new) ==
  LET e == End(t, k)
  IN  SubSeq(t, 1, e) \o Payload(new) \o SubSeq(t, e + 1, Len(t))

Occurrences(t, old) ==
  {i \in 1..Len(t) + 1 : i + Len(old) <= Len(t) + 1
                         /\ SubSeq(t, i, i + Len(old) - 1) = old}

FirstOf(S) == CHOOSE i \in S : \A j \in S : i <= j

\* count() = 1: occurrences that overlap the first are not counted.
CountsOne(t, old) ==
  LET S == Occurrences(t, old)
  IN  S # {} /\ \A i \in S \ {FirstOf(S)} : i < FirstOf(S) + Len(old)

Replace(t, old, new) ==
  LET i == FirstOf(Occurrences(t, old))
  IN  SubSeq(t, 1, i - 1) \o new \o SubSeq(t, i + Len(old), Len(t))

----------------------------------------------------------------------------
(* The handlers.                                                           *)

Request == busy = Idle /\ ops < MaxOps /\ ops' = ops + 1

\* The handler ends in an error before it has written anything.
Refuse(op, p) ==
  /\ reply' = [NoReply EXCEPT !.op = op, !.how = "refused", !.path = p,
                              !.want = doc[p]]
  /\ UNCHANGED <<doc, dir, history, busy, over>>

\* It goes on to open the file and to write data to it.
Proceed(op, p, data) ==
  /\ busy' = [Idle EXCEPT !.step = "open", !.op = op, !.path = p, !.data = data,
                          !.want = data]
  /\ reply' = NoReply
  /\ UNCHANGED doc

Create(p, t) ==
  /\ Request
  /\ IF doc[p] # Absent
     THEN Refuse("create", p)
     ELSE dir' = TRUE /\ Proceed("create", p, t) /\ UNCHANGED <<history, over>>
  /\ UNCHANGED <<stubs, foreign, locked, spoiled>>

Upload(p, t) ==
  /\ Request
  /\ dir' = TRUE /\ Proceed("upload", p, t)
  /\ UNCHANGED <<history, over, stubs, foreign, locked, spoiled>>

\* Fault: the history gets the text as edited.
PushEdited(p, text, edited) == history' = [history EXCEPT ![p] = Append(@, edited)]

\* _push_undo.
Push(p, text, edited) == history' = [history EXCEPT ![p] = Append(@, text)]

StrReplace(p, old, new) ==
  /\ Request
  /\ IF doc[p] = Absent \/ ~CountsOne(ReadText(doc[p]), old)
     THEN Refuse("str_replace", p)
     ELSE LET text == ReadText(doc[p])
              edited == Replace(text, old, new)
          IN  /\ Push(p, text, edited)
              /\ Proceed("str_replace", p, edited)
              /\ UNCHANGED <<dir, over>>
  /\ UNCHANGED <<stubs, foreign, locked, spoiled>>

InsertLine(p, k, new) ==
  /\ Request
  /\ IF doc[p] = Absent \/ k > Len(Lines(ReadText(doc[p])))
     THEN Refuse("insert", p)
     ELSE LET text == ReadText(doc[p])
              edited == Insert(text, k, new)
          IN  /\ Push(p, text, edited)
              /\ busy' = [Idle EXCEPT !.step = "open", !.op = "insert", !.path = p,
                            !.data = edited, !.want = edited,
                            !.edit = [text |-> text, after |-> k, new |-> new]]
              /\ reply' = NoReply
              /\ UNCHANGED <<doc, dir, over>>
  /\ UNCHANGED <<stubs, foreign, locked, spoiled>>

\* What an undo should bring back: what the edit overwrote, or, of a file spoiled,
\* just what is on the stack.
Undone(p) == IF p \in spoiled THEN Last(history[p]) ELSE ReadText(Last(over[p]).text)

\* undo_edit: the entry is gone whether or not it can be written.
Undo(p) ==
  /\ Request
  /\ IF history[p] = <<>>
     THEN Refuse("undo_edit", p)
     ELSE /\ history' = [history EXCEPT ![p] = Front(@)]
          /\ busy' = [Idle EXCEPT !.step = "open", !.op = "undo_edit", !.path = p,
                        !.data = Last(history[p]), !.want = Undone(p),
                        !.raced = p \notin spoiled /\ Last(over[p]).raced]
          /\ reply' = NoReply
          /\ UNCHANGED <<doc, dir, over>>
  /\ UNCHANGED <<stubs, foreign, locked, spoiled>>

----------------------------------------------------------------------------
(* Writing: open() truncates, the data follows, and the handler returns.    *)

Answer(how) ==
  reply' = [op |-> busy.op, how |-> how, path |-> busy.path, want |-> busy.want,
            edit |-> busy.edit, raced |-> busy.raced]

\* What an edit overwrites, and an undo brings back, is so when the file is open.
Overwrites(text, raced) ==
  \/ /\ busy.path \notin spoiled /\ busy.op \in {"str_replace", "insert"}
     /\ over' = [over EXCEPT ![busy.path] = Append(@, [text |-> text, raced |-> raced])]
  \/ /\ busy.path \notin spoiled /\ busy.op = "undo_edit"
     /\ over' = [over EXCEPT ![busy.path] = Front(@)]
  \/ /\ busy.path \in spoiled \/ busy.op \in {"create", "upload"}
     /\ over' = over

\* Fault: the file is opened as it is.
OpenNoTruncate(p) == doc' = [doc EXCEPT ![p] = IF @ = Absent THEN NoText ELSE @]

OpenFile(p) == doc' = [doc EXCEPT ![p] = NoText]

CanOpen == dir /\ busy.path \notin locked

Open ==
  /\ busy.step = "open" /\ busy.op # "register" /\ CanOpen
  /\ OpenFile(busy.path)
  /\ IF doc[busy.path] = Absent THEN Overwrites(NoText, TRUE)
     ELSE Overwrites(doc[busy.path], busy.raced)
  /\ busy' = [busy EXCEPT !.step = "write", !.linked = TRUE]
  /\ UNCHANGED <<dir, history, reply, stubs, ops, foreign, locked, spoiled>>

\* The directory is gone, or a process of the session has made the file or its
\* directory read-only.  The file is as it was; the entry that the handler pushed
\* stays and the one that it took off is lost.
OpenFails ==
  /\ busy.step = "open" /\ busy.op # "register" /\ ~CanOpen
  /\ spoiled' = IF busy.op \in {"str_replace", "insert", "undo_edit"}
                THEN spoiled \cup {busy.path} ELSE spoiled
  /\ reply' = [NoReply EXCEPT !.op = busy.op, !.how = "refused", !.path = busy.path,
                              !.want = doc[busy.path]]
  /\ busy' = Idle
  /\ UNCHANGED <<doc, dir, history, stubs, over, ops, foreign, locked>>

\* The data goes over what the session's processes wrote since open(), and nowhere
\* if they removed the file.
Over(data, t) == IF t = NoText THEN data ELSE data \o SubSeq(t, Len(data) + 1, Len(t))

Write ==
  /\ busy.step = "write" /\ busy.op # "register"
  /\ doc' = IF busy.linked
            THEN [doc EXCEPT ![busy.path] = Over(busy.data, @)] ELSE doc
  /\ Answer("ok")
  /\ busy' = Idle
  /\ UNCHANGED <<dir, history, stubs, over, ops, foreign, locked, spoiled>>

\* The disk is full: a 500, and the file stays empty.
WriteFails ==
  /\ busy.step = "write" /\ busy.op # "register"
  /\ Answer("failed")
  /\ busy' = Idle
  /\ UNCHANGED <<doc, dir, history, stubs, over, ops, foreign, locked, spoiled>>

----------------------------------------------------------------------------
(* register_programmatic_tools.                                            *)

\* _validate_tool_names; the $ of the pattern lets one newline pass.
Valid(tools) ==
  /\ \A i \in DOMAIN tools : tools[i] \in Word \cup TrailedWord
  /\ \A i, j \in DOMAIN tools : i # j => tools[i] # tools[j]

\* Fault: the file is opened before the module is generated.
RefuseOpened == stub' = Torn

\* A ValueError comes before the file is opened.
RefuseStub == stub' = stub

Register(tools) ==
  /\ Request
  /\ IF Valid(tools)
     THEN /\ busy' = [Idle EXCEPT !.step = "open", !.op = "register",
                        !.data = [tools |-> tools, at |-> ops]]
          /\ fresh' = FALSE /\ UNCHANGED stub
     ELSE RefuseStub /\ UNCHANGED <<busy, fresh>>
  /\ UNCHANGED <<doc, dir, history, reply, over, loaded, latest, foreign, locked,
                 spoiled>>

OpenStub ==
  /\ busy.step = "open" /\ busy.op = "register"
  /\ stub' = Torn
  /\ busy' = [busy EXCEPT !.step = "write"]
  /\ UNCHANGED <<doc, dir, history, reply, over, loaded, latest, fresh, ops,
                 foreign, locked, spoiled>>

\* The module or its directory is read-only.
OpenStubFails ==
  /\ busy.step = "open" /\ busy.op = "register"
  /\ busy' = Idle
  /\ UNCHANGED <<doc, dir, history, reply, over, stubs, ops, foreign, locked,
                 spoiled>>

WriteStub ==
  /\ busy.step = "write" /\ busy.op = "register"
  /\ stub' = busy.data /\ latest' = busy.data
  /\ busy' = Idle
  /\ UNCHANGED <<doc, dir, history, reply, over, loaded, fresh, ops, foreign,
                 locked, spoiled>>

\* The disk is full: what was installed is lost.
WriteStubFails ==
  /\ busy.step = "write" /\ busy.op = "register"
  /\ latest' = Torn
  /\ busy' = Idle
  /\ UNCHANGED <<doc, dir, history, reply, over, stub, loaded, fresh, ops,
                 foreign, locked, spoiled>>

----------------------------------------------------------------------------
(* The processes of the session.                                           *)

Meddle(p) ==
  /\ foreign < MaxForeign /\ foreign' = foreign + 1
  /\ reply' = [reply EXCEPT !.raced = @ \/ reply.path = p]

ForeignWrite(p, t) ==
  /\ Meddle(p) /\ p \notin locked
  /\ dir' = TRUE /\ doc' = [doc EXCEPT ![p] = t]
  /\ busy' = [busy EXCEPT !.raced = @ \/ busy.path = p]
  /\ UNCHANGED <<history, stubs, over, ops, locked, spoiled>>

ForeignRemove(p) ==
  /\ Meddle(p)
  /\ doc[p] # Absent
  /\ doc' = [doc EXCEPT ![p] = Absent]
  /\ busy' = [busy EXCEPT !.raced = @ \/ busy.path = p,
                          !.linked = @ /\ busy.path # p]
  /\ locked' = locked \ {p}
  /\ UNCHANGED <<dir, history, stubs, over, ops, spoiled>>

ForeignRmdir ==
  /\ foreign < MaxForeign /\ foreign' = foreign + 1
  /\ dir /\ \A p \in Path : doc[p] = Absent
  /\ dir' = FALSE /\ locked' = {}
  /\ UNCHANGED <<doc, history, busy, reply, stubs, over, ops, spoiled>>

\* chmod, there and back.
ForeignChmod(p) ==
  /\ foreign < MaxForeign /\ foreign' = foreign + 1
  /\ dir /\ locked' = IF p \in locked THEN locked \ {p} ELSE locked \cup {p}
  /\ UNCHANGED <<doc, dir, history, busy, reply, stubs, over, ops, spoiled>>

\* A block of the REPL imports the module for the first time: a file without
\* tools is a module too, a tool with a newline in its name is a SyntaxError.
Import ==
  /\ loaded = Absent /\ stub # Absent
  /\ stub # Torn => ~\E i \in DOMAIN stub.tools : stub.tools[i] \in TrailedWord
  /\ loaded' = stub
  /\ fresh' = (busy.op # "register")
  /\ UNCHANGED <<doc, dir, history, busy, reply, over, stub, latest, ops,
                 foreign, locked, spoiled>>

\* A new runner.
Restart ==
  /\ loaded # Absent
  /\ loaded' = Absent /\ fresh' = TRUE
  /\ UNCHANGED <<doc, dir, history, busy, reply, over, stub, latest, ops,
                 foreign, locked, spoiled>>

Handler ==
  \/ \E p \in Path, t \in Texts : Create(p, t) \/ Upload(p, t)
  \/ \E p \in Path, old \in Olds, new \in News : StrReplace(p, old, new)
  \/ \E p \in Path, new \in News, k \in LineNos : InsertLine(p, k, new)
  \/ \E p \in Path : Undo(p)
  \/ \E tools \in ToolLists : Register(tools)
  \/ Open \/ OpenFails \/ Write \/ WriteFails
  \/ OpenStub \/ OpenStubFails \/ WriteStub \/ WriteStubFails

Processes ==
  \/ \E p \in Path, t \in Texts : ForeignWrite(p, t)
  \/ \E p \in Path : ForeignRemove(p) \/ ForeignChmod(p)
  \/ ForeignRmdir \/ Import \/ Restart

Next == Handler \/ Processes

Spec == Init /\ [][Next]_vars

----------------------------------------------------------------------------
(* The undo stack holds what read_text returns: no carriage return.         *)
TypeOK ==
  /\ doc \in [Path -> Text \cup {Absent}] /\ dir \in BOOLEAN
  /\ locked \subseteq Path /\ spoiled \subseteq Path
  /\ history \in [Path -> Seq(Read)]
  /\ busy.step \in {"idle", "open", "write"} /\ busy.path \in Path \cup {Absent}
  /\ reply.how \in {"", "ok", "refused", "failed"} /\ reply.path \in Path \cup {Absent}
  /\ {stub, loaded, latest} \subseteq
       [tools : {l \in ToolLists : Valid(l)}, at : 0..MaxOps] \cup {Absent, Torn}
  /\ fresh \in BOOLEAN /\ ops \in 0..MaxOps /\ foreign \in 0..MaxForeign

\* "restore the previous version of a file edited by this tool"
\* (text_editor.py:9): there is one entry for every edit that overwrote the file
\* and whose version no undo brought back, whatever was created, removed, refused or
\* only half written in between, and it is what the edit overwrote up to its line
\* ends.  Only what a process of the session wrote between the handler's read and
\* its open() is nowhere.  (The tool does not do so for a file that one of its edits
\* or undos could not open: the entry of that edit stays, though nothing was
\* overwritten, and the version that undo took off is lost.)
HistoryIsFaithful ==
  busy = Idle => \A p \in Path \ spoiled :
    /\ Len(history[p]) = Len(over[p])
    /\ \A i \in DOMAIN over[p] :
         over[p][i].raced \/ history[p][i] = ReadText(over[p][i].text)

\* Unless a process of the session wrote the file too, a request that succeeded
\* leaves exactly what it should, undo_edit what the edit it undoes had overwritten
\* (or the last entry, of a file that an edit or undo failed to open), and one that
\* ended in an error without writing leaves the file alone.
ReplyIsTrue ==
  busy = Idle /\ reply.how \in {"ok", "refused"} /\ ~reply.raced =>
    doc[reply.path] = reply.want

\* "insert new_str after insert_line" (text_editor.py:8): the lines of the file are
\* the old ones with those of new_str after the line named, except that behind a
\* last line without a newline new_str continues that line.
InsertedAfterLine ==
  LET text == reply.edit.text  k == reply.edit.after  new == Payload(reply.edit.new)
      old == Lines(text)
  IN  busy = Idle /\ reply.op = "insert" /\ reply.how = "ok" /\ ~reply.raced =>
        \/ Lines(doc[reply.path]) =
              SubSeq(old, 1, k) \o Lines(new) \o SubSeq(old, k + 1, Len(old))
        \/ k = Len(old) /\ text # NoText /\ ~Finished(text)
           /\ doc[reply.path] = text \o new

\* What the REPL has imported is the registration written last, unless it imported
\* the module while one was under way or one was accepted since: then it may hold
\* an older module, or one cut off, until it is restarted.  A refused registration
\* takes nothing away.
LoadedIsLatest ==
  fresh /\ loaded # Absent => loaded = latest
=============================================================================
