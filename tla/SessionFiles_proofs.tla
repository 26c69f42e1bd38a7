------------------------ MODULE SessionFiles_proofs ------------------------
(* What holds of the files of a session for any paths, texts, edits and tool *)
(* lists, and for any number of requests and of file operations of the       *)
(* session's processes.  For the undo stack, the replies and the stub module *)
(* what ReadText, Replace and Insert return may be any value; what they do   *)
(* to a text comes behind, for its types and for the line insert is about.   *)
EXTENDS SessionFiles, FiniteSetTheorems, SequenceTheorems, WellFoundedInduction, TLAPS

FileOps == {"create", "upload", "str_replace", "insert", "undo_edit"}
Edits == {"str_replace", "insert"}

\* A sequence of whatever it holds.
Listed(s) == s \in Seq(Range(s))

-----------------------------------------------------------------------------
(* The inductive invariant.                                                 *)

PerPath(f) == f = [p \in Path |-> f[p]]

Lists == \A p \in Path : Listed(history[p]) /\ Listed(over[p])

AsBusy(b) ==
  /\ b = [step |-> b.step, op |-> b.op, path |-> b.path, data |-> b.data,
          linked |-> b.linked, want |-> b.want, edit |-> b.edit, raced |-> b.raced]
  /\ b.linked \in BOOLEAN

AsReply(r) == r = [op |-> r.op, how |-> r.how, path |-> r.path, want |-> r.want,
                   edit |-> r.edit, raced |-> r.raced]

Shape ==
  /\ PerPath(doc) /\ PerPath(history) /\ PerPath(over) /\ Lists
  /\ AsBusy(busy) /\ AsReply(reply)
  /\ dir \in BOOLEAN

\* A request is over, writes the stub module or writes a file.
Stage ==
  \/ busy = Idle
  \/ busy.step \in {"open", "write"} /\ busy.op = "register"
  \/ busy.step \in {"open", "write"} /\ busy.op \in FileOps /\ busy.path \in Path

\* The handler of an edit of p has pushed what it read and has not opened p yet.
Pushed(p) == busy.step = "open" /\ busy.op \in Edits /\ busy.path = p

\* An undo has taken the last entry off and not opened p yet.
Popped(p) == busy.step = "open" /\ busy.op = "undo_edit" /\ busy.path = p

\* An entry on the stack is what the edit has overwritten.
Kept(hist, ovr) ==
  \A i \in DOMAIN ovr : i <= Len(hist) => ovr[i].raced \/ hist[i] = ReadText(ovr[i].text)

HistoryInv ==
  \A p \in Path \ spoiled :
    /\ Pushed(p) => Len(history[p]) = Len(over[p]) + 1
    /\ Popped(p) => Len(over[p]) = Len(history[p]) + 1
    /\ ~Pushed(p) /\ ~Popped(p) => Len(history[p]) = Len(over[p])
    /\ Kept(history[p], over[p])
    /\ Pushed(p) /\ ~busy.raced /\ doc[p] # Absent =>
         history[p][Len(history[p])] = ReadText(doc[p])

\* What insert writes is what was asked for.
Inserts(op, want, edit) == op = "insert" => want = Insert(edit.text, edit.after, edit.new)

\* A write that nobody disturbs has the right data and an empty file to put it in.
WriteInv ==
  busy.op \in FileOps =>
    /\ busy.raced \/ busy.want = busy.data
    /\ busy.step = "open" => ~busy.linked
    /\ busy.linked => doc[busy.path] # Absent
    /\ busy.step = "write" /\ ~busy.raced => busy.linked /\ doc[busy.path] = NoText
    /\ Inserts(busy.op, busy.want, busy.edit)

DirInv == ~dir => \A p \in Path : doc[p] = Absent

\* The last answer is true until the next request.
ReplyInv ==
  busy.op \notin FileOps /\ reply.how \in {"ok", "refused"} =>
    /\ reply.path \in Path
    /\ ~reply.raced => doc[reply.path] = reply.want
    /\ reply.how = "ok" => Inserts(reply.op, reply.want, reply.edit)

\* The stub module is the registration written last, except while one is written;
\* then it is one that nobody can have imported undisturbed.
StubInv ==
  /\ IF busy.op = "register" /\ busy.step = "write" THEN stub = Torn ELSE stub = latest
  /\ busy.op = "register" /\ fresh => loaded = Absent
  /\ LoadedIsLatest

FilesInv == Shape /\ Stage /\ HistoryInv /\ WriteInv /\ DirInv /\ ReplyInv /\ StubInv

-----------------------------------------------------------------------------
(* Sequences.                                                               *)

\* A list has a length and is defined up to it.
LEMMA ListedProperties ==
  ASSUME NEW s, Listed(s)
  PROVE  Len(s) \in Nat /\ DOMAIN s = 1..Len(s)
  BY LenProperties DEF Listed

\* What Append adds to.
LEMMA ListedAppend ==
  ASSUME NEW s, Listed(s), NEW x
  PROVE  /\ Listed(Append(s, x)) /\ Len(Append(s, x)) = Len(s) + 1
         /\ DOMAIN Append(s, x) = 1..Len(s) + 1
         /\ \A i \in 1..Len(s) : Append(s, x)[i] = s[i]
         /\ Append(s, x)[Len(s) + 1] = x
  <1> DEFINE T == Range(s) \cup {x}
  <1>1. s \in Seq(T) /\ x \in T /\ Len(s) \in Nat /\ DOMAIN s = 1..Len(s)
    BY ListedProperties DEF Listed
  <1>2. /\ Append(s, x) \in Seq(T) /\ Len(Append(s, x)) = Len(s) + 1
        /\ \A i \in 1..Len(s) : Append(s, x)[i] = s[i]
        /\ Append(s, x)[Len(s) + 1] = x
    <2> HIDE DEF T
    <2> QED BY <1>1, AppendProperties
  <1>3. DOMAIN Append(s, x) = 1..Len(s) + 1
    BY <1>2, LenProperties
  <1>4. \A i \in 1..Len(s) + 1 : Append(s, x)[i] \in Range(Append(s, x))
    BY <1>3 DEF Range
  <1>5. Append(s, x) \in Seq(Range(Append(s, x)))
    <2> HIDE DEF T
    <2> QED BY <1>2, <1>3, <1>4, LenProperties
  <1> QED BY <1>2, <1>3, <1>5 DEF Listed

\* What Front takes off.
LEMMA ListedFront ==
  ASSUME NEW s, Listed(s), s # <<>>
  PROVE  /\ Listed(Front(s)) /\ Len(Front(s)) = Len(s) - 1
         /\ DOMAIN Front(s) = 1..Len(s) - 1 /\ Len(s) > 0
         /\ \A i \in 1..Len(s) - 1 : Front(s)[i] = s[i]
         /\ Last(s) = s[Len(s)]
  <1>1. s \in Seq(Range(s)) /\ Len(s) \in Nat /\ DOMAIN s = 1..Len(s) /\ Len(s) > 0
    BY ListedProperties, EmptySeq, LenProperties DEF Listed
  <1>2. /\ Front(s) \in Seq(Range(s)) /\ Len(Front(s)) = Len(s) - 1
        /\ \A i \in 1..Len(s) - 1 : Front(s)[i] = s[i]
    BY <1>1, SubSeqProperties DEF Front
  <1>3. DOMAIN Front(s) = 1..Len(s) - 1
    BY <1>2, LenProperties
  <1>4. \A i \in 1..Len(s) - 1 : Front(s)[i] \in Range(Front(s))
    BY <1>3 DEF Range
  <1>5. Front(s) \in Seq(Range(Front(s)))
    BY <1>1, <1>2, <1>3, <1>4, LenProperties
  <1> QED BY <1>1, <1>2, <1>3, <1>5 DEF Listed, Last

\* One path's part is replaced.
LEMMA PerPathExcept ==
  ASSUME NEW f, PerPath(f), NEW p \in Path, NEW x
  PROVE  /\ PerPath([f EXCEPT ![p] = x]) /\ [f EXCEPT ![p] = x][p] = x
         /\ \A q \in Path \ {p} : [f EXCEPT ![p] = x][q] = f[q]
  BY DEF PerPath

-----------------------------------------------------------------------------
(* The files.                                                               *)

FileInv == Shape /\ Stage /\ HistoryInv /\ WriteInv /\ DirInv /\ ReplyInv

\* An empty workspace.
LEMMA FileInit == Init => FileInv
  <1> SUFFICES ASSUME Init PROVE FileInv
    OBVIOUS
  <1>1. \A p \in Path : history[p] = <<>> /\ over[p] = <<>> /\ doc[p] = Absent
    BY DEF Init
  <1>2. Listed(<<>>) /\ Len(<<>>) = 0 /\ DOMAIN <<>> = {}
    BY EmptySeq, LenProperties DEF Listed
  <1>3. busy = Idle /\ reply = NoReply
    BY DEF Init
  <1>4. Shape
    <2>1. PerPath(doc) /\ PerPath(history) /\ PerPath(over)
      BY DEF Init, PerPath
    <2>2. AsBusy(busy) /\ AsReply(reply)
      BY <1>3 DEF AsBusy, AsReply, Idle, NoReply
    <2> QED BY <1>1, <1>2, <2>1, <2>2 DEF Shape, Lists, Init
  <1>5. HistoryInv
    <2>1. \A p \in Path : ~Pushed(p) /\ ~Popped(p)
      BY <1>3 DEF Pushed, Popped, Idle
    <2>2. \A p \in Path : Len(history[p]) = 0 /\ Len(over[p]) = 0 /\ DOMAIN over[p] = {}
      BY <1>1, <1>2
    <2> QED BY <2>1, <2>2 DEF HistoryInv, Kept
  <1>6. Stage /\ WriteInv /\ DirInv /\ ReplyInv
    BY <1>1, <1>3, Zenon DEF Stage, WriteInv, DirInv, ReplyInv, FileOps, Idle, NoReply
  <1> QED BY <1>4, <1>5, <1>6 DEF FileInv

\* What a handler finds when it begins.
LEMMA AtRest ==
  ASSUME FileInv, busy = Idle
  PROVE  /\ busy.step = "idle" /\ busy.op = "" /\ ~busy.linked /\ busy.op \notin FileOps
         /\ \A p \in Path : ~Pushed(p) /\ ~Popped(p)
         /\ \A p \in Path \ spoiled : Len(history[p]) = Len(over[p])
  <1>1. busy.step = "idle" /\ busy.op = "" /\ ~busy.linked /\ busy.op \notin FileOps
    BY DEF Idle, FileOps
  <1>2. \A p \in Path : ~Pushed(p) /\ ~Popped(p)
    BY <1>1 DEF Pushed, Popped
  <1>3. \A p \in Path \ spoiled : Len(history[p]) = Len(over[p])
    BY <1>2 DEF FileInv, HistoryInv
  <1> QED BY <1>1, <1>2, <1>3

\* A request is refused: the files are as they were.
LEMMA RefuseInv ==
  ASSUME FileInv, busy = Idle, NEW p \in Path, NEW op, Refuse(op, p), spoiled' = spoiled
  PROVE  FileInv'
  <1>1. /\ reply' = [op |-> op, how |-> "refused", path |-> p, want |-> doc[p],
                     edit |-> NoEdit, raced |-> FALSE]
        /\ UNCHANGED <<doc, dir, history, busy, over>>
    BY DEF Refuse, NoReply
  <1>2. Shape' /\ Stage' /\ DirInv'
    <2>1. AsReply(reply')
      BY <1>1 DEF AsReply
    <2> QED BY <1>1, <2>1 DEF FileInv, Shape, Lists, Stage, DirInv
  <1>3. HistoryInv' /\ WriteInv'
    BY <1>1 DEF FileInv, HistoryInv, WriteInv, Pushed, Popped
  <1>4. ReplyInv'
    BY <1>1 DEF ReplyInv
  <1> QED BY <1>2, <1>3, <1>4 DEF FileInv

\* create, and an upload.
LEMMA CreateInv ==
  ASSUME FileInv, NEW p \in Path, NEW t \in Texts, Create(p, t) \/ Upload(p, t)
  PROVE  FileInv'
  <1>0. busy = Idle /\ spoiled' = spoiled
    BY DEF Create, Upload, Request
  <1>1. CASE Refuse("create", p)
    BY <1>0, <1>1, RefuseInv
  <1>2. ASSUME NEW op \in {"create", "upload"}, dir' = TRUE, Proceed(op, p, t),
               UNCHANGED <<history, over>>
        PROVE  FileInv'
    <2>1. /\ busy' = [step |-> "open", op |-> op, path |-> p, data |-> t, linked |-> FALSE,
                      want |-> t, edit |-> NoEdit, raced |-> FALSE]
          /\ reply' = NoReply /\ UNCHANGED <<doc, history, over>>
      BY <1>2 DEF Proceed, Idle
    <2>2. Shape' /\ Stage' /\ DirInv'
      <3>1. AsBusy(busy') /\ AsReply(reply')
        BY <2>1 DEF AsBusy, AsReply, NoReply
      <3> QED BY <1>2, <2>1, <3>1 DEF FileInv, Shape, Lists, Stage, DirInv, FileOps
    <2>3. HistoryInv'
      <3>1. \A q \in Path : ~Pushed(q) /\ ~Popped(q) /\ ~Pushed(q)' /\ ~Popped(q)'
        BY <1>0, <1>2, <2>1, AtRest DEF Pushed, Popped, Edits
      <3> QED BY <1>0, <2>1, <3>1 DEF FileInv, HistoryInv
    <2>4. WriteInv' /\ ReplyInv'
      BY <1>2, <2>1 DEF WriteInv, ReplyInv, FileOps, Inserts
    <2> QED BY <2>2, <2>3, <2>4 DEF FileInv
  <1> QED BY <1>1, <1>2 DEF Create, Upload

\* An edit pushes what it has read before it writes anything.
LEMMA EditInv ==
  ASSUME FileInv, NEW p \in Path, NEW op \in Edits, NEW edited, NEW edit,
         busy = Idle, doc[p] # Absent, Inserts(op, edited, edit),
         history' = [history EXCEPT ![p] = Append(@, ReadText(doc[p]))],
         busy' = [step |-> "open", op |-> op, path |-> p, data |-> edited, linked |-> FALSE,
                  want |-> edited, edit |-> edit, raced |-> FALSE],
         reply' = NoReply, UNCHANGED <<doc, dir, over, spoiled>>
  PROVE  FileInv'
  <1>1. /\ history'[p] = Append(history[p], ReadText(doc[p]))
        /\ \A q \in Path \ {p} : history'[q] = history[q]
        /\ PerPath(history')
    <2>1. PerPath(history)
      BY DEF FileInv, Shape
    <2>2. history' = [history EXCEPT ![p] = Append(history[p], ReadText(doc[p]))]
      BY <2>1 DEF PerPath
    <2>3. PerPath(history')
      <3> DEFINE x == Append(history[p], ReadText(doc[p]))
      <3>1. PerPath([history EXCEPT ![p] = x])
        <4> HIDE DEF x
        <4> QED BY <2>1, PerPathExcept
      <3> QED BY <2>2, <3>1
    <2> QED BY <2>1, <2>2, <2>3 DEF PerPath
  <1>2. \A q \in Path : Listed(history[q]) /\ Listed(over[q])
    BY DEF FileInv, Shape, Lists
  <1>3. Listed(history'[p]) /\ Len(history'[p]) = Len(history[p]) + 1
        /\ (\A i \in 1..Len(history[p]) : history'[p][i] = history[p][i])
        /\ history'[p][Len(history[p]) + 1] = ReadText(doc[p])
    BY <1>1, <1>2, ListedAppend
  <1>4. \A q \in Path : Listed(history'[q])
    BY <1>1, <1>2, <1>3
  <1>5. Shape' /\ Stage' /\ DirInv'
    <2>1. Shape'
      <3>1. AsBusy(busy') /\ AsReply(reply')
        BY DEF AsBusy, AsReply, NoReply
      <3>2. Lists'
        BY <1>2, <1>4 DEF Lists
      <3> QED BY <1>1, <3>1, <3>2 DEF FileInv, Shape
    <2>2. Stage' /\ DirInv'
      BY DEF FileInv, Stage, DirInv, FileOps, Edits
    <2> QED BY <2>1, <2>2
  <1>6. HistoryInv'
    <2> SUFFICES ASSUME NEW q \in Path \ spoiled
        PROVE  /\ q = p => Len(history'[q]) = Len(over[q]) + 1
               /\ q # p => Len(history'[q]) = Len(over[q])
               /\ Kept(history'[q], over[q])
               /\ q = p => history'[q][Len(history'[q])] = ReadText(doc[q])
      <3>1. \A q \in Path : ~Popped(q)' /\ (Pushed(q)' <=> q = p)
        BY DEF Popped, Pushed, Edits
      <3> QED BY <3>1 DEF HistoryInv
    <2>1. Len(history[q]) = Len(over[q]) /\ DOMAIN over[q] = 1..Len(history[q])
          /\ Len(history[q]) \in Nat
      BY <1>2, AtRest, ListedProperties
    <2>2. \A i \in DOMAIN over[q] :
            over[q][i].raced \/ history[q][i] = ReadText(over[q][i].text)
      BY <2>1 DEF FileInv, HistoryInv, Kept
    <2>3. CASE q = p
      BY <1>3, <2>1, <2>2, <2>3 DEF Kept
    <2>4. CASE q # p
      BY <1>1, <2>1, <2>2, <2>4 DEF Kept
    <2> QED BY <2>3, <2>4
  <1>7. WriteInv' /\ ReplyInv'
    BY DEF WriteInv, ReplyInv, FileOps, Edits
  <1> QED BY <1>5, <1>6, <1>7 DEF FileInv

\* str_replace.
LEMMA StrReplaceInv ==
  ASSUME FileInv, NEW p \in Path, NEW old, NEW new, StrReplace(p, old, new)
  PROVE  FileInv'
  <1>0. busy = Idle /\ spoiled' = spoiled
    BY DEF StrReplace, Request
  <1>1. CASE Refuse("str_replace", p)
    BY <1>0, <1>1, RefuseInv
  <1>2. CASE ~Refuse("str_replace", p)
    <2> DEFINE edited == Replace(ReadText(doc[p]), old, new)
    <2>1. /\ doc[p] # Absent
          /\ Push(p, ReadText(doc[p]), edited) /\ Proceed("str_replace", p, edited)
          /\ UNCHANGED <<dir, over>>
      BY <1>2, Zenon DEF StrReplace
    <2> HIDE DEF edited
    <2>2. /\ history' = [history EXCEPT ![p] = Append(@, ReadText(doc[p]))]
          /\ busy' = [step |-> "open", op |-> "str_replace", path |-> p, data |-> edited,
                      linked |-> FALSE, want |-> edited, edit |-> NoEdit, raced |-> FALSE]
          /\ reply' = NoReply /\ UNCHANGED <<doc, dir, over>>
      BY <2>1 DEF Push, Proceed, Idle
    <2>3. Inserts("str_replace", edited, NoEdit) /\ "str_replace" \in Edits
      BY DEF Inserts, Edits
    <2> QED BY <1>0, <2>1, <2>2, <2>3, EditInv
  <1> QED BY <1>1, <1>2

\* insert.
LEMMA InsertLineInv ==
  ASSUME FileInv, NEW p \in Path, NEW k, NEW new, InsertLine(p, k, new)
  PROVE  FileInv'
  <1>0. busy = Idle /\ spoiled' = spoiled
    BY DEF InsertLine, Request
  <1>1. CASE Refuse("insert", p)
    BY <1>0, <1>1, RefuseInv
  <1>2. CASE ~Refuse("insert", p)
    <2> DEFINE edited == Insert(ReadText(doc[p]), k, new)
               edit == [text |-> ReadText(doc[p]), after |-> k, new |-> new]
    <2>1. /\ doc[p] # Absent
          /\ Push(p, ReadText(doc[p]), edited)
          /\ busy' = [Idle EXCEPT !.step = "open", !.op = "insert", !.path = p,
                        !.data = edited, !.want = edited, !.edit = edit]
          /\ reply' = NoReply /\ UNCHANGED <<doc, dir, over>>
      BY <1>2, Zenon DEF InsertLine
    <2>2. Inserts("insert", edited, edit) /\ "insert" \in Edits
      BY DEF Inserts, Edits
    <2> HIDE DEF edited, edit
    <2>3. /\ history' = [history EXCEPT ![p] = Append(@, ReadText(doc[p]))]
          /\ busy' = [step |-> "open", op |-> "insert", path |-> p, data |-> edited,
                      linked |-> FALSE, want |-> edited, edit |-> edit, raced |-> FALSE]
      BY <2>1 DEF Push, Idle
    <2> QED BY <1>0, <2>1, <2>2, <2>3, EditInv
  <1> QED BY <1>1, <1>2

\* undo_edit takes the last entry off and writes it: what the edit overwrote.
LEMMA UndoInv ==
  ASSUME FileInv, NEW p \in Path, Undo(p)
  PROVE  FileInv'
  <1>0. busy = Idle /\ spoiled' = spoiled
    BY DEF Undo, Request
  <1>1. CASE Refuse("undo_edit", p)
    BY <1>0, <1>1, RefuseInv
  <1>2. CASE ~Refuse("undo_edit", p)
    <2> DEFINE old == Last(over[p])  hist == history[p]  ovr == over[p]
               lost == p \notin spoiled /\ old.raced
    <2>1. /\ hist # <<>>
          /\ history' = [history EXCEPT ![p] = Front(@)]
          /\ busy' = [step |-> "open", op |-> "undo_edit", path |-> p, data |-> Last(hist),
                      linked |-> FALSE, want |-> Undone(p), edit |-> NoEdit,
                      raced |-> lost]
          /\ reply' = NoReply /\ UNCHANGED <<doc, dir, over>>
      <3>1. /\ hist # <<>>
            /\ busy' = [Idle EXCEPT !.step = "open", !.op = "undo_edit", !.path = p,
                          !.data = Last(hist), !.want = Undone(p), !.raced = lost]
        BY <1>2, Zenon DEF Undo
      <3> HIDE DEF lost
      <3> QED BY <1>2, <3>1 DEF Undo, Idle
    <2>2. PerPath(history) /\ Listed(hist) /\ Listed(ovr)
      BY DEF FileInv, Shape, Lists
    <2>3. history' = [history EXCEPT ![p] = Front(hist)]
      BY <2>1, <2>2 DEF PerPath
    <2>4. p \notin spoiled => Len(hist) = Len(ovr)
      BY <1>0, AtRest
    <2>5. p \notin spoiled => Kept(hist, ovr)
      BY DEF FileInv, HistoryInv
    <2>6. Undone(p) = IF p \in spoiled THEN Last(hist) ELSE ReadText(old.text)
      BY DEF Undone
    <2>7. old = Last(ovr) /\ (lost <=> p \notin spoiled /\ old.raced)
      OBVIOUS
    <2> HIDE DEF hist, ovr, old, lost
    <2>8. PerPath(history') /\ history'[p] = Front(hist)
          /\ \A q \in Path \ {p} : history'[q] = history[q]
      <3>1. PerPath([history EXCEPT ![p] = Front(hist)])
        BY <2>2, PerPathExcept
      <3> QED BY <2>2, <2>3, <3>1 DEF PerPath
    <2>9. /\ Listed(Front(hist)) /\ Len(Front(hist)) = Len(hist) - 1
          /\ Len(hist) > 0 /\ Len(hist) \in Nat /\ Last(hist) = hist[Len(hist)]
          /\ DOMAIN ovr = 1..Len(ovr) /\ Len(ovr) \in Nat
          /\ \A i \in 1..Len(hist) - 1 : Front(hist)[i] = hist[i]
      BY <2>1, <2>2, ListedFront, ListedProperties
    <2>10. Shape' /\ Stage' /\ DirInv'
      <3>1. AsBusy(busy') /\ AsReply(reply')
        BY <2>1 DEF AsBusy, AsReply, NoReply
      <3>2. Lists'
        BY <2>1, <2>8, <2>9 DEF FileInv, Shape, Lists
      <3> QED BY <2>1, <2>8, <3>1, <3>2
              DEF FileInv, Shape, Stage, DirInv, FileOps
    <2>11. HistoryInv'
      <3>1. \A q \in Path : ~Pushed(q)' /\ (Popped(q)' <=> q = p)
        BY <2>1 DEF Pushed, Popped, Edits
      <3>2. ASSUME p \notin spoiled
            PROVE  Len(ovr) = Len(Front(hist)) + 1 /\ Kept(Front(hist), ovr)
        BY <2>4, <2>5, <2>9, <3>2 DEF Kept
      <3>3. ASSUME NEW q \in Path \ spoiled, q # p
            PROVE  Len(history'[q]) = Len(over[q]) /\ Kept(history'[q], over[q])
        BY <1>0, <2>8, <3>3, AtRest DEF FileInv, HistoryInv
      <3> QED BY <1>0, <2>1, <2>8, <3>1, <3>2, <3>3 DEF HistoryInv, ovr
    <2>12. lost \/ Undone(p) = Last(hist)
      <3>1. CASE p \in spoiled
        BY <2>6, <3>1
      <3>2. CASE p \notin spoiled
        <4>1. Len(hist) \in DOMAIN ovr /\ Last(ovr) = ovr[Len(hist)]
          BY <2>4, <2>9, <3>2 DEF Last
        <4>2. old.raced \/ hist[Len(hist)] = ReadText(old.text)
          BY <2>5, <2>7, <2>9, <3>2, <4>1 DEF Kept
        <4> QED BY <2>6, <2>7, <2>9, <3>2, <4>2
      <3> QED BY <3>1, <3>2
    <2>13. WriteInv' /\ ReplyInv'
      BY <2>1, <2>12 DEF WriteInv, ReplyInv, FileOps, Inserts
    <2> QED BY <2>10, <2>11, <2>13 DEF FileInv
  <1> QED BY <1>1, <1>2

\* open() settles what an edit overwrites: what it read, if nobody came between; and
\* that what an undo has taken off is brought back.
LEMMA OverwritesInv ==
  ASSUME FileInv, busy.step = "open", busy.op \in FileOps, NEW content, NEW lost,
         Overwrites(content, lost), history' = history, spoiled' = spoiled,
         busy'.step # "open",
         lost \/ (~busy.raced /\ doc[busy.path] # Absent /\ content = doc[busy.path])
  PROVE  PerPath(over') /\ Lists' /\ HistoryInv'
  <1> DEFINE p == busy.path  ovr == over[p]
  <1>0. p \in Path /\ PerPath(over) /\ Lists /\ HistoryInv /\ Listed(ovr)
    <2>1. PerPath(over) /\ Lists /\ HistoryInv /\ Stage
      BY DEF FileInv, Shape
    <2>2. p \in Path
      <3>1. busy.op # "" /\ busy.op # "register"
        BY DEF FileOps
      <3>2. Idle.op = ""
        BY DEF Idle
      <3> QED BY <2>1, <3>1, <3>2 DEF Stage
    <2> QED BY <2>1, <2>2 DEF Lists
  <1>1. \A q \in Path : ~Pushed(q)' /\ ~Popped(q)'
    BY DEF Pushed, Popped
  <1>2. \A q \in Path \ {p} : ~Pushed(q) /\ ~Popped(q)
    BY DEF Pushed, Popped
  <1>3. ASSUME NEW new, Listed(new), over' = [over EXCEPT ![p] = new],
               p \notin spoiled => Len(history[p]) = Len(new) /\ Kept(history[p], new)
        PROVE  PerPath(over') /\ Lists' /\ HistoryInv'
    <2> HIDE DEF ovr, p
    <2>1. PerPath(over') /\ over'[p] = new /\ \A q \in Path \ {p} : over'[q] = over[q]
      <3>1. /\ PerPath([over EXCEPT ![p] = new]) /\ [over EXCEPT ![p] = new][p] = new
            /\ \A q \in Path \ {p} : [over EXCEPT ![p] = new][q] = over[q]
        BY <1>0, PerPathExcept
      <3> QED BY <1>3, <3>1
    <2>2. Lists'
      BY <1>0, <1>3, <2>1 DEF Lists
    <2>3. ASSUME NEW q \in Path \ spoiled
          PROVE  Len(history[q]) = Len(over'[q]) /\ Kept(history[q], over'[q])
      <3>1. CASE q = p
        BY <1>3, <2>1, <3>1
      <3>2. CASE q # p
        BY <1>0, <1>2, <2>1, <3>2 DEF HistoryInv
      <3> QED BY <3>1, <3>2
    <2>4. HistoryInv'
      BY <1>1, <2>3 DEF HistoryInv
    <2> QED BY <2>1, <2>2, <2>4
  <1>4. CASE p \in spoiled \/ busy.op \notin Edits \cup {"undo_edit"}
    <2>1. over' = over /\ \A q \in Path \ spoiled : ~Pushed(q) /\ ~Popped(q)
      <3>1. over' = over
        BY <1>4 DEF Overwrites, Edits
      <3> QED BY <1>2, <1>4, <3>1 DEF Pushed, Popped
    <2> QED BY <1>0, <1>1, <2>1 DEF HistoryInv, Lists
  <1>5. CASE p \notin spoiled /\ busy.op \in Edits
    <2> DEFINE e == [text |-> content, raced |-> lost]
    <2>1. over' = [over EXCEPT ![p] = Append(ovr, e)]
      BY <1>0, <1>5 DEF Overwrites, Edits, PerPath
    <2>2. e.text = content /\ e.raced = lost
      OBVIOUS
    <2>3. Len(history[p]) = Len(ovr) + 1 /\ Kept(history[p], ovr)
          /\ (~busy.raced /\ doc[p] # Absent =>
                history[p][Len(history[p])] = ReadText(doc[p]))
      BY <1>0, <1>5 DEF HistoryInv, Pushed
    <2>4. lost \/ history[p][Len(ovr) + 1] = ReadText(content)
      BY <2>3
    <2> HIDE DEF e, ovr
    <2>5. /\ Listed(Append(ovr, e)) /\ Len(Append(ovr, e)) = Len(ovr) + 1
          /\ DOMAIN Append(ovr, e) = 1..Len(ovr) + 1 /\ DOMAIN ovr = 1..Len(ovr)
          /\ Len(ovr) \in Nat
          /\ \A i \in 1..Len(ovr) : Append(ovr, e)[i] = ovr[i]
          /\ Append(ovr, e)[Len(ovr) + 1] = e
      BY <1>0, ListedAppend, ListedProperties
    <2>6. Kept(history[p], Append(ovr, e))
      <3> SUFFICES ASSUME NEW i \in 1..Len(ovr) + 1
          PROVE  Append(ovr, e)[i].raced \/ history[p][i] = ReadText(Append(ovr, e)[i].text)
        BY <2>5 DEF Kept
      <3>1. CASE i = Len(ovr) + 1
        BY <2>2, <2>4, <2>5, <3>1
      <3>2. CASE i \in 1..Len(ovr)
        <4>1. i \in DOMAIN ovr /\ i <= Len(history[p])
          BY <2>3, <2>5, <3>2
        <4> QED BY <2>3, <2>5, <3>2, <4>1 DEF Kept
      <3> QED BY <2>5, <3>1, <3>2
    <2> QED BY <1>3, <2>1, <2>3, <2>5, <2>6
  <1>6. CASE p \notin spoiled /\ busy.op = "undo_edit"
    <2>1. over' = [over EXCEPT ![p] = Front(ovr)]
      BY <1>0, <1>6 DEF Overwrites, PerPath
    <2>2. Len(ovr) = Len(history[p]) + 1 /\ Kept(history[p], ovr) /\ Listed(history[p])
      <3>1. Popped(p) /\ p \in Path \ spoiled
        BY <1>0, <1>6 DEF Popped
      <3> QED BY <1>0, <3>1 DEF HistoryInv, Lists
    <2> HIDE DEF ovr
    <2>3. Len(history[p]) \in Nat /\ ovr # <<>>
      <3>1. Len(history[p]) \in Nat
        BY <2>2, ListedProperties
      <3>2. Len(ovr) # 0
        BY <2>2, <3>1
      <3> QED BY <3>1, <3>2
    <2>4. /\ Listed(Front(ovr)) /\ Len(Front(ovr)) = Len(ovr) - 1
          /\ DOMAIN Front(ovr) = 1..Len(ovr) - 1 /\ DOMAIN ovr = 1..Len(ovr)
          /\ \A i \in 1..Len(ovr) - 1 : Front(ovr)[i] = ovr[i]
      BY <1>0, <2>3, ListedFront, ListedProperties
    <2>5. Len(history[p]) = Len(Front(ovr))
      BY <2>2, <2>3, <2>4
    <2>6. Kept(history[p], Front(ovr))
      <3>1. \A i \in 1..Len(ovr) - 1 : i \in DOMAIN ovr /\ i <= Len(history[p])
        BY <2>2, <2>3, <2>4
      <3> QED BY <2>2, <2>4, <3>1 DEF Kept
    <2> QED BY <1>3, <2>1, <2>4, <2>5, <2>6
  <1> QED BY <1>4, <1>5, <1>6

\* A write that is not of the stub module is of a file.
LEMMA WritesFile ==
  ASSUME FileInv, busy.step \in {"open", "write"}, busy.op # "register"
  PROVE  busy.op \in FileOps /\ busy.path \in Path
  <1>1. Idle.step = "idle"
    BY DEF Idle
  <1> QED BY <1>1 DEF FileInv, Stage

\* The file is opened and empty.
LEMMA OpenInv ==
  ASSUME FileInv, Open
  PROVE  FileInv'
  <1> DEFINE p == busy.path
  <1>0. busy.op \in FileOps /\ p \in Path /\ dir /\ busy.step = "open"
    BY WritesFile DEF Open, CanOpen
  <1>1. /\ busy' = [step |-> "write", op |-> busy.op, path |-> p, data |-> busy.data,
                    linked |-> TRUE, want |-> busy.want, edit |-> busy.edit,
                    raced |-> busy.raced]
        /\ UNCHANGED <<dir, history, reply, spoiled>>
    <2>1. AsBusy(busy) /\ busy' = [busy EXCEPT !.step = "write", !.linked = TRUE]
      BY DEF FileInv, Shape, Open
    <2> QED BY <2>1 DEF AsBusy, Open
  <1>2. PerPath(doc') /\ doc'[p] = NoText /\ \A q \in Path \ {p} : doc'[q] = doc[q]
    <2>1. PerPath(doc) /\ doc' = [doc EXCEPT ![p] = NoText]
      BY DEF FileInv, Shape, Open, OpenFile
    <2>2. PerPath([doc EXCEPT ![p] = NoText])
      BY <1>0, <2>1, PerPathExcept
    <2> QED BY <1>0, <2>1, <2>2 DEF PerPath
  <1>3. PerPath(over') /\ Lists' /\ HistoryInv'
    <2>1. CASE doc[p] = Absent
      BY <1>0, <1>1, <2>1, OverwritesInv DEF Open
    <2>2. CASE doc[p] # Absent
      <3>1. Overwrites(doc[p], busy.raced)
        BY <2>2 DEF Open
      <3> QED BY <1>0, <1>1, <2>2, <3>1, OverwritesInv
    <2> QED BY <2>1, <2>2
  <1>4. NoText # Absent
    BY AbsentIsNoText DEF NoText
  <1>5. Shape'
    <2>1. AsBusy(busy')
      BY <1>1 DEF AsBusy
    <2> QED BY <1>1, <1>2, <1>3, <2>1 DEF FileInv, Shape
  <1>6. Stage'
    BY <1>0, <1>1 DEF Stage
  <1>7. WriteInv'
    BY <1>0, <1>1, <1>2, <1>4 DEF FileInv, WriteInv
  <1>8. DirInv' /\ ReplyInv'
    BY <1>0, <1>1 DEF DirInv, ReplyInv
  <1> QED BY <1>3, <1>5, <1>6, <1>7, <1>8 DEF FileInv

\* A request ends: nothing is under way any more.
LEMMA EndInv ==
  ASSUME FileInv, busy.step \in {"open", "write"}, busy.op \in FileOps, busy' = Idle,
         PerPath(doc'), AsReply(reply'), DirInv', ReplyInv', UNCHANGED <<dir, history>>,
         PerPath(over') /\ Lists' /\ HistoryInv'
  PROVE  FileInv'
  <1>1. AsBusy(busy') /\ busy'.op \notin FileOps
    BY DEF AsBusy, Idle, FileOps
  <1>2. Shape'
    BY <1>1 DEF FileInv, Shape
  <1>3. Stage' /\ WriteInv'
    BY <1>1 DEF Stage, WriteInv
  <1> QED BY <1>2, <1>3 DEF FileInv

\* open() fails: the file is as it was, and the stack of an edit or an undo is spoiled.
LEMMA OpenFailsInv ==
  ASSUME FileInv, OpenFails
  PROVE  FileInv'
  <1>0. busy.op \in FileOps /\ busy.path \in Path /\ busy.step = "open"
    BY WritesFile DEF OpenFails
  <1>1. /\ reply' = [op |-> busy.op, how |-> "refused", path |-> busy.path,
                     want |-> doc[busy.path], edit |-> NoEdit, raced |-> FALSE]
        /\ busy' = Idle /\ UNCHANGED <<doc, dir, history, over>>
    BY DEF OpenFails, NoReply
  <1>2. PerPath(over') /\ Lists' /\ HistoryInv'
    <2>1. \A q \in Path : ~Pushed(q)' /\ ~Popped(q)'
      BY <1>1 DEF Pushed, Popped, Idle
    <2>2. ASSUME NEW q \in Path \ spoiled'
          PROVE  q \in Path \ spoiled /\ ~Pushed(q) /\ ~Popped(q)
      <3>1. /\ spoiled \subseteq spoiled'
            /\ busy.op \in Edits \cup {"undo_edit"} => busy.path \in spoiled'
        BY DEF OpenFails, Edits
      <3> QED BY <2>2, <3>1 DEF Pushed, Popped
    <2>3. HistoryInv'
      BY <1>1, <2>1, <2>2 DEF FileInv, HistoryInv
    <2> QED BY <1>1, <2>3 DEF FileInv, Shape, Lists
  <1>3. AsReply(reply') /\ PerPath(doc')
    BY <1>1 DEF AsReply, FileInv, Shape
  <1>4. DirInv' /\ ReplyInv'
    BY <1>0, <1>1 DEF FileInv, DirInv, ReplyInv
  <1> QED BY <1>0, <1>1, <1>2, <1>3, <1>4, EndInv

\* While a file is open its edit is settled.
LEMMA SettledInv ==
  ASSUME FileInv, busy.step = "write", busy' = Idle,
         UNCHANGED <<history, over, spoiled>>
  PROVE  PerPath(over') /\ Lists' /\ HistoryInv'
  <1>1. \A q \in Path : ~Pushed(q) /\ ~Popped(q) /\ ~Pushed(q)' /\ ~Popped(q)'
    BY DEF Pushed, Popped, Idle
  <1> QED BY <1>1 DEF FileInv, Shape, Lists, HistoryInv

\* The data is written, or the disk is full.
LEMMA WriteEndInv ==
  ASSUME FileInv, Write \/ WriteFails
  PROVE  FileInv'
  <1> DEFINE p == busy.path
  <1>0. busy.op \in FileOps /\ p \in Path /\ busy.step = "write"
    BY WritesFile DEF Write, WriteFails
  <1>1. PICK how : /\ reply' = [op |-> busy.op, how |-> how, path |-> p, want |-> busy.want,
                                edit |-> busy.edit, raced |-> busy.raced]
                   /\ \/ how = "failed" /\ doc' = doc
                      \/ how = "ok" /\ doc' = IF busy.linked
                           THEN [doc EXCEPT ![p] = Over(busy.data, @)] ELSE doc
    BY DEF Write, WriteFails, Answer
  <1>2. busy' = Idle /\ UNCHANGED <<dir, history, over, spoiled>>
    BY DEF Write, WriteFails
  <1>3. PerPath(over') /\ Lists' /\ HistoryInv'
    BY <1>0, <1>2, SettledInv
  <1>4. AsReply(reply')
    BY <1>1 DEF AsReply
  <1>5. busy.raced \/ busy.want = busy.data
    BY <1>0 DEF FileInv, WriteInv
  <1>6. Inserts(busy.op, busy.want, busy.edit)
    BY <1>0 DEF FileInv, WriteInv
  <1>7. CASE how = "failed" \/ ~busy.linked
    <2>1. doc' = doc
      BY <1>1, <1>7
    <2>2. how # "failed" => busy.raced
      BY <1>0, <1>7 DEF FileInv, WriteInv
    <2>3. PerPath(doc') /\ DirInv'
      BY <1>2, <2>1 DEF FileInv, Shape, DirInv
    <2>4. ReplyInv'
      BY <1>0, <1>1, <1>6, <2>2 DEF ReplyInv
    <2> QED BY <1>0, <1>2, <1>3, <1>4, <2>3, <2>4, EndInv
  <1>8. CASE how = "ok" /\ busy.linked
    <2> DEFINE t == Over(busy.data, doc[p])
    <2>1. doc[p] # Absent /\ (~busy.raced => t = busy.want)
      BY <1>0, <1>5, <1>8 DEF FileInv, WriteInv, Over
    <2> HIDE DEF t
    <2>2. PerPath(doc) /\ doc' = [doc EXCEPT ![p] = t]
      BY <1>0, <1>1, <1>8 DEF FileInv, Shape, PerPath, t
    <2>3. PerPath(doc') /\ doc'[p] = t
      <3>1. PerPath([doc EXCEPT ![p] = t])
        BY <1>0, <2>2, PerPathExcept
      <3> QED BY <1>0, <2>2, <3>1 DEF PerPath
    <2>4. DirInv'
      BY <1>0, <1>2, <2>1 DEF FileInv, DirInv
    <2>5. ReplyInv'
      BY <1>0, <1>1, <1>6, <2>1, <2>3 DEF ReplyInv
    <2> QED BY <1>0, <1>2, <1>3, <1>4, <2>3, <2>4, <2>5, EndInv
  <1> QED BY <1>1, <1>7, <1>8

\* A registration leaves the files and the last answer alone.
LEMMA RegisterInv ==
  ASSUME FileInv, UNCHANGED <<doc, dir, history, reply, over, spoiled>>,
         busy.op \in {"", "register"}, AsBusy(busy'),
         busy' = Idle \/ (busy'.step \in {"open", "write"} /\ busy'.op = "register")
  PROVE  FileInv'
  <1>1. busy'.op \notin FileOps /\ busy.op \notin FileOps
    <2>1. Idle.op = ""
      BY DEF Idle
    <2>2. busy'.op \in {"", "register"}
      BY <2>1
    <2> QED BY <2>2 DEF FileOps
  <1>2. \A p \in Path : ~Pushed(p) /\ ~Popped(p) /\ ~Pushed(p)' /\ ~Popped(p)'
    <2>1. busy.op \notin Edits \cup {"undo_edit"} /\ busy'.op \notin Edits \cup {"undo_edit"}
      BY <1>1 DEF FileOps, Edits
    <2> QED BY <2>1 DEF Pushed, Popped
  <1>3. Shape' /\ Stage' /\ DirInv'
    BY DEF FileInv, Shape, Lists, Stage, DirInv
  <1>4. HistoryInv'
    BY <1>2 DEF FileInv, HistoryInv
  <1>5. WriteInv' /\ ReplyInv'
    BY <1>1 DEF FileInv, WriteInv, ReplyInv
  <1> QED BY <1>3, <1>4, <1>5 DEF FileInv

\* register_programmatic_tools.
LEMMA RegisterSteps ==
  ASSUME FileInv,
         \/ \E tools \in ToolLists : Register(tools)
         \/ OpenStub \/ OpenStubFails \/ WriteStub \/ WriteStubFails
  PROVE  FileInv'
  <1>0. AsBusy(busy) /\ Idle.op = "" /\ AsBusy(Idle)
    BY DEF FileInv, Shape, AsBusy, Idle
  <1>1. ASSUME NEW tools \in ToolLists, Register(tools)
        PROVE  FileInv'
    <2>1. CASE busy' = busy
      BY <1>0, <1>1, <2>1, RegisterInv DEF Register, Request
    <2>2. CASE busy' # busy
      <3>1. busy' = [Idle EXCEPT !.step = "open", !.op = "register",
                       !.data = [tools |-> tools, at |-> ops]]
        BY <1>1, <2>2 DEF Register
      <3>2. busy'.step = "open" /\ busy'.op = "register" /\ AsBusy(busy')
        <4> DEFINE d == [tools |-> tools, at |-> ops]
        <4>1. busy' = [Idle EXCEPT !.step = "open", !.op = "register", !.data = d]
          BY <3>1
        <4> HIDE DEF d
        <4> QED BY <4>1 DEF AsBusy, Idle
      <3> QED BY <1>0, <1>1, <3>2, RegisterInv DEF Register, Request
    <2> QED BY <2>1, <2>2
  <1>2. CASE OpenStub
    <2>1. busy' = [busy EXCEPT !.step = "write"]
      BY <1>2 DEF OpenStub
    <2>2. busy'.step = "write" /\ busy'.op = busy.op /\ AsBusy(busy')
      BY <1>0, <2>1 DEF AsBusy
    <2> QED BY <1>2, <2>2, RegisterInv DEF OpenStub
  <1>3. CASE OpenStubFails \/ WriteStub \/ WriteStubFails
    BY <1>0, <1>3, RegisterInv DEF OpenStubFails, WriteStub, WriteStubFails
  <1> QED BY <1>1, <1>2, <1>3

\* A process of the session changes a file: it spoils the write that is under way
\* there and the last answer about it, and nothing else.
LEMMA MeddleInv ==
  ASSUME FileInv, NEW p \in Path, Meddle(p), NEW content, doc' = [doc EXCEPT ![p] = content],
         content = Absent \/ dir', dir => dir', dir' \in BOOLEAN,
         UNCHANGED <<history, over, spoiled>>,
         AsBusy(busy'), busy'.step = busy.step, busy'.op = busy.op, busy'.path = busy.path,
         busy'.data = busy.data, busy'.want = busy.want, busy'.edit = busy.edit,
         busy'.raced = (busy.raced \/ busy.path = p),
         busy.path # p => busy'.linked = busy.linked,
         busy.path = p /\ busy'.linked => busy.linked /\ content # Absent
  PROVE  FileInv'
  <1>1. PerPath(doc') /\ doc'[p] = content /\ \A q \in Path \ {p} : doc'[q] = doc[q]
    <2>1. PerPath(doc)
      BY DEF FileInv, Shape
    <2>2. PerPath([doc EXCEPT ![p] = content])
      BY <2>1, PerPathExcept
    <2> QED BY <2>1, <2>2 DEF PerPath
  <1>2. /\ AsReply(reply') /\ reply'.op = reply.op /\ reply'.how = reply.how
        /\ reply'.path = reply.path /\ reply'.want = reply.want /\ reply'.edit = reply.edit
        /\ reply'.raced = (reply.raced \/ reply.path = p)
    <2>1. AsReply(reply) /\ reply' = [reply EXCEPT !.raced = @ \/ reply.path = p]
      BY DEF FileInv, Shape, Meddle
    <2> QED BY <2>1 DEF AsReply
  <1>3. Shape'
    BY <1>1, <1>2 DEF FileInv, Shape, Lists
  <1>4. Stage'
    <2>1. CASE busy = Idle
      <3>1. busy.path = Absent /\ busy.path # p /\ busy.raced = FALSE
        BY <2>1, AbsentIsNoText DEF Idle
      <3>2. busy'.raced = FALSE /\ busy'.linked = busy.linked
        BY <3>1
      <3>3. busy' = busy
        BY <2>1, <3>1, <3>2 DEF AsBusy, Idle
      <3> QED BY <2>1, <3>3 DEF Stage
    <2>2. CASE busy # Idle
      BY <2>2 DEF FileInv, Stage
    <2> QED BY <2>1, <2>2
  <1>5. HistoryInv'
    <2>1. \A q \in Path : (Pushed(q)' <=> Pushed(q)) /\ (Popped(q)' <=> Popped(q))
      BY DEF Pushed, Popped
    <2>2. ASSUME NEW q \in Path, Pushed(q), ~busy'.raced, doc'[q] # Absent
          PROVE  ~busy.raced /\ doc[q] # Absent /\ doc'[q] = doc[q]
      BY <1>1, <2>2 DEF Pushed
    <2> QED BY <2>1, <2>2 DEF FileInv, HistoryInv
  <1>6. WriteInv'
    <2> SUFFICES ASSUME busy.op \in FileOps
        PROVE  /\ busy'.raced \/ busy.want = busy.data
               /\ busy.step = "open" => ~busy'.linked
               /\ busy'.linked => doc'[busy.path] # Absent
               /\ busy.step = "write" /\ ~busy'.raced => busy'.linked /\ doc'[busy.path] = NoText
               /\ Inserts(busy.op, busy.want, busy.edit)
      BY DEF WriteInv
    <2>1. busy.path \in Path
      <3>1. Idle.op = "" /\ busy.op # "" /\ busy.op # "register"
        BY DEF Idle, FileOps
      <3> QED BY <3>1 DEF FileInv, Stage
    <2>2. /\ busy.raced \/ busy.want = busy.data
          /\ busy.step = "open" => ~busy.linked
          /\ busy.linked => doc[busy.path] # Absent
          /\ busy.step = "write" /\ ~busy.raced => busy.linked /\ doc[busy.path] = NoText
          /\ Inserts(busy.op, busy.want, busy.edit)
      BY DEF FileInv, WriteInv
    <2>3. CASE busy.path = p
      BY <1>1, <2>2, <2>3
    <2>4. CASE busy.path # p
      BY <1>1, <2>1, <2>2, <2>4
    <2> QED BY <2>3, <2>4
  <1>7. DirInv'
    BY <1>1 DEF FileInv, DirInv
  <1>8. ReplyInv'
    <2>1. ASSUME reply'.path \in Path, ~reply'.raced
          PROVE  doc'[reply.path] = doc[reply.path] /\ ~reply.raced
      BY <1>1, <1>2, <2>1
    <2> QED BY <1>2, <2>1 DEF FileInv, ReplyInv
  <1> QED BY <1>3, <1>4, <1>5, <1>6, <1>7, <1>8 DEF FileInv

\* The session's processes.
LEMMA ForeignSteps ==
  ASSUME FileInv,
         \/ \E p \in Path, t \in Texts : ForeignWrite(p, t)
         \/ \E p \in Path : ForeignRemove(p) \/ ForeignChmod(p)
         \/ ForeignRmdir
  PROVE  FileInv'
  <1>0. AsBusy(busy) /\ dir \in BOOLEAN
    BY DEF FileInv, Shape
  <1>1. ASSUME NEW p \in Path, NEW t \in Texts, ForeignWrite(p, t)
        PROVE  FileInv'
    <2>1. t # Absent
      BY AbsentIsNoText
    <2>2. /\ AsBusy(busy') /\ busy'.step = busy.step /\ busy'.op = busy.op
          /\ busy'.path = busy.path /\ busy'.data = busy.data /\ busy'.want = busy.want
          /\ busy'.edit = busy.edit /\ busy'.linked = busy.linked
          /\ busy'.raced = (busy.raced \/ busy.path = p)
      <3>1. busy' = [busy EXCEPT !.raced = @ \/ busy.path = p]
        BY <1>1 DEF ForeignWrite
      <3> QED BY <1>0, <3>1 DEF AsBusy
    <2> QED BY <1>0, <1>1, <2>1, <2>2, MeddleInv DEF ForeignWrite
  <1>2. ASSUME NEW p \in Path, ForeignRemove(p)
        PROVE  FileInv'
    <2>2. /\ AsBusy(busy') /\ busy'.step = busy.step /\ busy'.op = busy.op
          /\ busy'.path = busy.path /\ busy'.data = busy.data /\ busy'.want = busy.want
          /\ busy'.edit = busy.edit /\ busy'.linked = (busy.linked /\ busy.path # p)
          /\ busy'.raced = (busy.raced \/ busy.path = p)
      <3>1. busy' = [busy EXCEPT !.raced = @ \/ busy.path = p,
                                 !.linked = @ /\ busy.path # p]
        BY <1>2 DEF ForeignRemove
      <3> QED BY <1>0, <3>1 DEF AsBusy
    <2>3. busy.path # p => busy'.linked = busy.linked
      BY <1>0, <2>2 DEF AsBusy
    <2> QED BY <1>0, <1>2, <2>2, <2>3, MeddleInv DEF ForeignRemove
  <1>3. CASE ForeignRmdir \/ \E p \in Path : ForeignChmod(p)
    <2>0. UNCHANGED <<doc, history, busy, reply, over, spoiled>>
          /\ (dir' = dir \/ (dir' = FALSE /\ \A p \in Path : doc[p] = Absent))
      <3>1. CASE ForeignRmdir
        BY <3>1 DEF ForeignRmdir
      <3>2. CASE \E p \in Path : ForeignChmod(p)
        BY <3>2 DEF ForeignChmod
      <3> QED BY <1>3, <3>1, <3>2
    <2>1. Shape' /\ Stage' /\ DirInv'
      BY <2>0 DEF FileInv, Shape, Lists, Stage, DirInv
    <2>2. HistoryInv' /\ WriteInv' /\ ReplyInv'
      BY <2>0 DEF FileInv, HistoryInv, Pushed, Popped, WriteInv, ReplyInv
    <2> QED BY <2>1, <2>2 DEF FileInv
  <1> QED BY <1>1, <1>2, <1>3

\* Every step, by who takes it.
LEMMA FileStep == FileInv /\ [Next]_vars => FileInv'
  <1> SUFFICES ASSUME FileInv, [Next]_vars PROVE FileInv'
    OBVIOUS
  <1>1. ASSUME NEW p \in Path, NEW t \in Texts, Create(p, t) \/ Upload(p, t)
        PROVE  FileInv'
    BY <1>1, CreateInv
  <1>2. ASSUME NEW p \in Path, NEW old \in Olds, NEW new \in News, StrReplace(p, old, new)
        PROVE  FileInv'
    BY <1>2, StrReplaceInv
  <1>3. ASSUME NEW p \in Path, NEW new \in News, NEW k \in LineNos, InsertLine(p, k, new)
        PROVE  FileInv'
    BY <1>3, InsertLineInv
  <1>4. ASSUME NEW p \in Path, Undo(p)
        PROVE  FileInv'
    BY <1>4, UndoInv
  <1>5. CASE Open \/ OpenFails \/ Write \/ WriteFails
    BY <1>5, OpenInv, OpenFailsInv, WriteEndInv
  <1>6. CASE (\E tools \in ToolLists : Register(tools)) \/ OpenStub \/ OpenStubFails
             \/ WriteStub \/ WriteStubFails
    BY <1>6, RegisterSteps
  <1>7. CASE \/ \E p \in Path, t \in Texts : ForeignWrite(p, t)
             \/ \E p \in Path : ForeignRemove(p) \/ ForeignChmod(p)
             \/ ForeignRmdir
    BY <1>7, ForeignSteps
  <1>8. CASE Import \/ Restart \/ UNCHANGED vars
    <2>1. UNCHANGED <<doc, dir, history, busy, reply, over, spoiled>>
      BY <1>8 DEF Import, Restart, vars
    <2>2. Shape' /\ Stage' /\ DirInv'
      BY <2>1 DEF FileInv, Shape, Lists, Stage, DirInv
    <2>3. HistoryInv' /\ WriteInv' /\ ReplyInv'
      BY <2>1 DEF FileInv, HistoryInv, Pushed, Popped, WriteInv, ReplyInv
    <2> QED BY <2>2, <2>3 DEF FileInv
  <1>9. CASE Handler
    BY <1>1, <1>2, <1>3, <1>4, <1>5, <1>6, <1>9, Zenon DEF Handler
  <1>10. CASE Processes
    BY <1>7, <1>8, <1>10, Zenon DEF Processes
  <1> QED BY <1>8, <1>9, <1>10 DEF Next

-----------------------------------------------------------------------------
(* The stub module.                                                         *)

\* No stub is installed.
LEMMA StubInit == Init => StubInv
  <1>1. Idle.op = ""
    BY DEF Idle
  <1> QED BY <1>1 DEF Init, StubInv, LoadedIsLatest

\* Whoever writes a file has nothing to do with the stub module.
LEMMA FilesAreNoStub ==
  ASSUME FileInv,
         \/ \E p \in Path, t \in Texts : Create(p, t) \/ Upload(p, t)
         \/ \E p \in Path, old \in Olds, new \in News : StrReplace(p, old, new)
         \/ \E p \in Path, new \in News, k \in LineNos : InsertLine(p, k, new)
         \/ \E p \in Path : Undo(p)
         \/ Open \/ OpenFails \/ Write \/ WriteFails
  PROVE  UNCHANGED stubs /\ busy.op # "register" /\ busy'.op # "register"
  <1>0. Idle.op = "" /\ AsBusy(busy)
    BY DEF Idle, FileInv, Shape
  <1>1. ASSUME NEW p \in Path, NEW t \in Texts, Create(p, t) \/ Upload(p, t)
        PROVE  UNCHANGED stubs /\ busy = Idle /\ busy'.op # "register"
    <2>1. ASSUME NEW op \in {"create", "upload"}, Proceed(op, p, t)
          PROVE  busy'.op # "register"
      BY <2>1 DEF Proceed, Idle
    <2>2. ASSUME busy = Idle, Refuse("create", p)
          PROVE  busy'.op # "register"
      BY <1>0, <2>2 DEF Refuse
    <2> QED BY <1>1, <2>1, <2>2 DEF Create, Upload, Request
  <1>2. ASSUME NEW p \in Path, NEW old \in Olds, NEW new \in News, StrReplace(p, old, new)
        PROVE  UNCHANGED stubs /\ busy = Idle /\ busy'.op # "register"
    <2> DEFINE edited == Replace(ReadText(doc[p]), old, new)
    <2>1. UNCHANGED stubs /\ busy = Idle
      BY <1>2 DEF StrReplace, Request
    <2>2. Refuse("str_replace", p) \/ Proceed("str_replace", p, edited)
      BY <1>2, Zenon DEF StrReplace
    <2> HIDE DEF edited
    <2>3. CASE Refuse("str_replace", p)
      BY <1>0, <2>1, <2>3 DEF Refuse
    <2>4. CASE Proceed("str_replace", p, edited)
      BY <2>1, <2>4 DEF Proceed, Idle
    <2> QED BY <2>1, <2>2, <2>3, <2>4
  <1>3. ASSUME NEW p \in Path, NEW new \in News, NEW k \in LineNos, InsertLine(p, k, new)
        PROVE  UNCHANGED stubs /\ busy = Idle /\ busy'.op # "register"
    <2> DEFINE edited == Insert(ReadText(doc[p]), k, new)
               edit == [text |-> ReadText(doc[p]), after |-> k, new |-> new]
    <2>1. UNCHANGED stubs /\ busy = Idle
      BY <1>3 DEF InsertLine, Request
    <2>2. \/ Refuse("insert", p)
          \/ busy' = [Idle EXCEPT !.step = "open", !.op = "insert", !.path = p,
                        !.data = edited, !.want = edited, !.edit = edit]
      BY <1>3, Zenon DEF InsertLine
    <2> HIDE DEF edited, edit
    <2>3. CASE Refuse("insert", p)
      BY <1>0, <2>1, <2>3 DEF Refuse
    <2>4. CASE ~Refuse("insert", p)
      BY <2>1, <2>2, <2>4 DEF Idle
    <2> QED BY <2>1, <2>3, <2>4
  <1>4. ASSUME NEW p \in Path, Undo(p)
        PROVE  UNCHANGED stubs /\ busy = Idle /\ busy'.op # "register"
    <2> DEFINE hist == Last(history[p])  read == Undone(p)
               lost == p \notin spoiled /\ Last(over[p]).raced
    <2>1. UNCHANGED stubs /\ busy = Idle
      BY <1>4 DEF Undo, Request
    <2>2. \/ Refuse("undo_edit", p)
          \/ busy' = [Idle EXCEPT !.step = "open", !.op = "undo_edit", !.path = p,
                        !.data = hist, !.want = read, !.raced = lost]
      BY <1>4, Zenon DEF Undo
    <2> HIDE DEF hist, read, lost
    <2>3. CASE Refuse("undo_edit", p)
      BY <1>0, <2>1, <2>3 DEF Refuse
    <2>4. CASE ~Refuse("undo_edit", p)
      BY <2>1, <2>2, <2>4 DEF Idle
    <2> QED BY <2>1, <2>3, <2>4
  <1>5. CASE Open \/ OpenFails \/ Write \/ WriteFails
    <2>1. UNCHANGED stubs /\ busy.op # "register"
          /\ (busy' = Idle \/ busy' = [busy EXCEPT !.step = "write", !.linked = TRUE])
      BY <1>5 DEF Open, OpenFails, Write, WriteFails
    <2> QED BY <1>0, <2>1 DEF AsBusy
  <1>6. busy = Idle => busy.op # "register"
    BY <1>0
  <1> QED BY <1>1, <1>2, <1>3, <1>4, <1>5, <1>6

\* Only a registration touches the module, and whoever imports meanwhile is not fresh.
LEMMA StubStep == FileInv /\ StubInv /\ [Next]_vars => StubInv'
  <1> SUFFICES ASSUME FileInv, StubInv, [Next]_vars PROVE StubInv'
    OBVIOUS
  <1>0. Idle.op = "" /\ AsBusy(busy)
    BY DEF Idle, FileInv, Shape
  <1>1. ASSUME NEW tools \in ToolLists, Register(tools)
        PROVE  StubInv'
    <2>1. busy = Idle /\ loaded' = loaded /\ latest' = latest /\ stub' = stub
      BY <1>1 DEF Register, Request, RefuseStub
    <2>2. CASE busy' = busy /\ fresh' = fresh
      BY <2>1, <2>2 DEF StubInv, LoadedIsLatest
    <2>3. CASE Valid(tools)
      <3> DEFINE d == [tools |-> tools, at |-> ops]
      <3>1. busy' = [Idle EXCEPT !.step = "open", !.op = "register", !.data = d]
            /\ fresh' = FALSE
        BY <1>1, <2>3 DEF Register
      <3> HIDE DEF d
      <3>2. busy'.step = "open" /\ busy'.op = "register"
        BY <3>1 DEF Idle
      <3>3. stub = latest
        BY <1>0, <2>1 DEF StubInv
      <3>4. IF busy'.op = "register" /\ busy'.step = "write"
            THEN stub' = Torn ELSE stub' = latest'
        BY <2>1, <3>2, <3>3
      <3> QED BY <3>1, <3>4 DEF StubInv, LoadedIsLatest
    <2> QED BY <1>1, <2>2, <2>3 DEF Register
  <1>2. CASE OpenStub
    <2>1. busy' = [busy EXCEPT !.step = "write"] /\ stub' = Torn
          /\ UNCHANGED <<loaded, latest, fresh>> /\ busy.op = "register"
      BY <1>2 DEF OpenStub
    <2>2. busy'.step = "write" /\ busy'.op = "register"
      BY <1>0, <2>1 DEF AsBusy
    <2> QED BY <2>1, <2>2 DEF StubInv, LoadedIsLatest
  <1>3. CASE OpenStubFails \/ WriteStub \/ WriteStubFails
    <2>1. busy' = Idle /\ stub' = latest' /\ UNCHANGED <<loaded, fresh>>
          /\ busy.op = "register" /\ (latest' = latest \/ busy.op = "register")
      BY <1>3 DEF OpenStubFails, stubs, WriteStub, WriteStubFails, StubInv
    <2> QED BY <1>0, <2>1 DEF StubInv, LoadedIsLatest
  <1>4. CASE Import
    BY <1>4 DEF Import, StubInv, LoadedIsLatest
  <1>5. CASE Restart
    BY <1>5 DEF Restart, StubInv, LoadedIsLatest
  <1>6. ASSUME UNCHANGED stubs, busy.op # "register", busy'.op # "register"
        PROVE  StubInv'
    BY <1>6 DEF stubs, StubInv, LoadedIsLatest
  <1>7. ASSUME UNCHANGED stubs, busy'.op = busy.op, busy'.step = busy.step
        PROVE  StubInv'
    BY <1>7 DEF stubs, StubInv, LoadedIsLatest
  <1>8. CASE \/ \E p \in Path, t \in Texts : Create(p, t) \/ Upload(p, t)
             \/ \E p \in Path, old \in Olds, new \in News : StrReplace(p, old, new)
             \/ \E p \in Path, new \in News, k \in LineNos : InsertLine(p, k, new)
             \/ \E p \in Path : Undo(p)
             \/ Open \/ OpenFails \/ Write \/ WriteFails
    <2>1. UNCHANGED stubs /\ busy.op # "register" /\ busy'.op # "register"
      BY <1>8, FilesAreNoStub
    <2> QED BY <1>6, <2>1
  <1>9. ASSUME \/ \E p \in Path, t \in Texts : ForeignWrite(p, t)
               \/ \E p \in Path : ForeignRemove(p) \/ ForeignChmod(p)
               \/ ForeignRmdir \/ UNCHANGED vars
        PROVE  StubInv'
    <2>1. UNCHANGED stubs
      BY <1>9 DEF ForeignWrite, ForeignRemove, ForeignChmod, ForeignRmdir, vars
    <2>2. \/ busy' = busy
          \/ \E p \in Path : busy' = [busy EXCEPT !.raced = @ \/ busy.path = p]
          \/ \E p \in Path : busy' = [busy EXCEPT !.raced = @ \/ busy.path = p,
                                                  !.linked = @ /\ busy.path # p]
      BY <1>9, Zenon DEF ForeignWrite, ForeignRemove, ForeignChmod, ForeignRmdir, vars
    <2>3. busy'.op = busy.op /\ busy'.step = busy.step
      BY <1>0, <2>2 DEF AsBusy
    <2> QED BY <1>7, <2>1, <2>3
  <1>10. CASE Handler
    BY <1>1, <1>2, <1>3, <1>8, <1>10, Zenon DEF Handler
  <1>11. CASE Processes
    BY <1>4, <1>5, <1>9, <1>11, Zenon DEF Processes
  <1> QED BY <1>9, <1>10, <1>11 DEF Next

-----------------------------------------------------------------------------
\* FilesInv always holds.
LEMMA FilesAlways == Spec => []FilesInv
  <1>1. Init => FilesInv
    BY FileInit, StubInit DEF FilesInv, FileInv
  <1>2. FilesInv /\ [Next]_vars => FilesInv'
    <2> SUFFICES ASSUME FilesInv, [Next]_vars PROVE FilesInv'
      OBVIOUS
    <2>1. FileInv /\ StubInv
      BY DEF FilesInv, FileInv
    <2>2. FileInv' /\ StubInv'
      BY <2>1, FileStep, StubStep
    <2> QED BY <2>2 DEF FilesInv, FileInv
  <1> QED BY <1>1, <1>2, PTL DEF Spec

\* Between requests the undo stack of a file has an entry for every edit that
\* overwrote the file and whose version no undo brought back, and each is what that edit
\* overwrote, whatever was created, refused, removed or only half written in between;
\* not so for a file that an edit or an undo failed to open (text_editor.py:110-167).
THEOREM UndoStackIsFaithful == Spec => []HistoryIsFaithful
  <1>1. FilesInv => HistoryIsFaithful
    <2> SUFFICES ASSUME FilesInv, busy = Idle, NEW p \in Path \ spoiled
        PROVE  /\ Len(history[p]) = Len(over[p])
               /\ \A i \in DOMAIN over[p] :
                    over[p][i].raced \/ history[p][i] = ReadText(over[p][i].text)
      BY DEF HistoryIsFaithful
    <2>1. FileInv /\ Len(history[p]) = Len(over[p]) /\ Listed(over[p])
      BY AtRest DEF FilesInv, FileInv, Shape, Lists
    <2>2. DOMAIN over[p] = 1..Len(history[p]) /\ Len(history[p]) \in Nat
      BY <2>1, ListedProperties
    <2>3. Kept(history[p], over[p])
      BY <2>1 DEF FileInv, HistoryInv
    <2> QED BY <2>1, <2>2, <2>3 DEF Kept
  <1> QED BY <1>1, FilesAlways, PTL

\* A request that succeeded has left what it should, an undo what the edit it took
\* back had overwritten, and one that was refused has left the file alone; unless a
\* process of the session wrote the file as well (text_editor.py:99-171, files.py:51-67).
THEOREM RepliesAreTrue == Spec => []ReplyIsTrue
  <1>1. FilesInv => ReplyIsTrue
    BY AtRest DEF FilesInv, FileInv, ReplyInv, ReplyIsTrue
  <1> QED BY <1>1, FilesAlways, PTL

\* A REPL that imported the stub module while no registration was under way, and none
\* has been accepted since, has the one written last (platform_tools.py:84-95).
THEOREM ImportIsCurrent == Spec => []LoadedIsLatest
  <1>1. FilesInv => LoadedIsLatest
    BY DEF FilesInv, StubInv
  <1> QED BY <1>1, FilesAlways, PTL

-----------------------------------------------------------------------------
(* Numbers and pieces of sequences.                                          *)

\* A set of natural numbers has a least one.
LEMMA LeastNat ==
  ASSUME NEW S \in SUBSET Nat, S # {}
  PROVE  \E m \in S : \A k \in S : m <= k
  <1> DEFINE R == OpToRel(<, Nat)
  <1>1. IsWellFoundedOn(R, Nat)
    BY NatLessThanWellFounded, Zenon
  <1>2. R = {ss \in Nat \X Nat : ss[1] < ss[2]}
    BY Zenon DEF OpToRel
  <1> HIDE DEF R
  <1>3. PICK m \in S : \A k \in S : ~(<<k, m>> \in R)
    BY <1>1, WFMin, Zenon
  <1>4. ASSUME NEW k \in S
        PROVE  m <= k
    <2>1. ~(<<k, m>> \in {ss \in Nat \X Nat : ss[1] < ss[2]})
      BY <1>2, <1>3
    <2> QED BY <2>1
  <1> QED BY <1>4

\* What SubSeq cuts out.
LEMMA Cut ==
  ASSUME NEW T, NEW s \in Seq(T), NEW m \in Nat \ {0}, NEW n \in Nat, n <= Len(s)
  PROVE  /\ SubSeq(s, m, n) \in Seq(T)
         /\ Len(SubSeq(s, m, n)) = IF m <= n THEN n - m + 1 ELSE 0
         /\ DOMAIN SubSeq(s, m, n) = 1..(n - m + 1)
         /\ \A i \in 1..(n - m + 1) : SubSeq(s, m, n)[i] = s[m + i - 1]
  <1>1. \A i \in m..n : s[i] \in T
    BY ElementOfSeq
  <1>2. /\ SubSeq(s, m, n) \in Seq(T)
        /\ Len(SubSeq(s, m, n)) = IF m <= n THEN n - m + 1 ELSE 0
        /\ \A i \in 1..(n - m + 1) : SubSeq(s, m, n)[i] = s[m + i - 1]
    BY <1>1, SubSeqProperties
  <1> QED BY <1>2, LenProperties

\* The first n elements.
LEMMA Prefix ==
  ASSUME NEW T, NEW s \in Seq(T), NEW n \in 0..Len(s)
  PROVE  /\ SubSeq(s, 1, n) \in Seq(T) /\ Len(SubSeq(s, 1, n)) = n
         /\ DOMAIN SubSeq(s, 1, n) = 1..n
         /\ \A i \in 1..n : SubSeq(s, 1, n)[i] = s[i]
  <1>1. n \in Nat /\ n <= Len(s) /\ Len(s) \in Nat
    BY LenProperties
  <1> QED BY <1>1, Cut

\* What comes behind the first n elements.
LEMMA Suffix ==
  ASSUME NEW T, NEW s \in Seq(T), NEW n \in 0..Len(s)
  PROVE  /\ SubSeq(s, n + 1, Len(s)) \in Seq(T)
         /\ Len(SubSeq(s, n + 1, Len(s))) = Len(s) - n
         /\ \A i \in 1..Len(s) - n : SubSeq(s, n + 1, Len(s))[i] = s[n + i]
  <1>1. n \in Nat /\ n <= Len(s) /\ Len(s) \in Nat
    BY LenProperties
  <1>2. PICK m \in Nat \ {0} : m = n + 1
    BY <1>1
  <1>3. /\ SubSeq(s, m, Len(s)) \in Seq(T)
        /\ Len(SubSeq(s, m, Len(s))) = IF m <= Len(s) THEN Len(s) - m + 1 ELSE 0
        /\ \A i \in 1..(Len(s) - m + 1) : SubSeq(s, m, Len(s))[i] = s[m + i - 1]
    BY <1>1, Cut
  <1>4. PICK r : r = SubSeq(s, m, Len(s))
    OBVIOUS
  <1>5. r \in Seq(T) /\ Len(r) = Len(s) - n /\ \A i \in 1..Len(s) - n : r[i] = s[n + i]
    BY <1>1, <1>2, <1>3, <1>4
  <1> QED BY <1>2, <1>4, <1>5

\* Two pieces one behind the other.
LEMMA Joined ==
  ASSUME NEW T, NEW r \in Seq(T), NEW s \in Seq(T)
  PROVE  /\ r \o s \in Seq(T) /\ Len(r \o s) = Len(r) + Len(s)
         /\ Len(r) \in Nat /\ Len(s) \in Nat
         /\ \A i \in 1..Len(r) : (r \o s)[i] = r[i]
         /\ \A i \in 1..Len(s) : (r \o s)[Len(r) + i] = s[i]
  BY ConcatProperties, LenProperties

\* Two sequences with the same elements.
LEMMA SameSeq ==
  ASSUME NEW T, NEW r \in Seq(T), NEW s \in Seq(T), Len(r) = Len(s),
         \A i \in 1..Len(r) : r[i] = s[i]
  PROVE  r = s
  BY SeqEqual

-----------------------------------------------------------------------------
(* Positions in a text, counted.                                            *)

\* How many of the positions S are at most i.
Upto(S, i) == S \cap (1..i)
Count(S, i) == Cardinality(Upto(S, i))

\* Those that are at most i.
LEMMA UptoIn ==
  ASSUME NEW l \in Nat, NEW S \in SUBSET (1..l), NEW i \in Nat
  PROVE  \A j : j \in Upto(S, i) <=> j \in S /\ j <= i
  <1>1. \A j \in S : j \in 1..i <=> j <= i
    OBVIOUS
  <1> QED BY <1>1 DEF Upto

\* So many of a set of positions are at most l, and none is at 0.
LEMMA CountBounds ==
  ASSUME NEW l \in Nat, NEW S \in SUBSET (1..l)
  PROVE  /\ IsFiniteSet(S) /\ Cardinality(S) \in Nat
         /\ Count(S, 0) = 0 /\ Count(S, l) = Cardinality(S)
  <1>1. IsFiniteSet(S)
    <2>1. IsFiniteSet(1..l)
      BY FS_Interval
    <2> QED BY <2>1, FS_Subset
  <1>2. Upto(S, 0) = {} /\ Upto(S, l) = S
    <2>1. \A j \in S : ~(j <= 0) /\ j <= l
      OBVIOUS
    <2>2. \A j : j \in Upto(S, 0) <=> j \in S /\ j <= 0
      BY UptoIn
    <2>3. \A j : j \in Upto(S, l) <=> j \in S /\ j <= l
      BY UptoIn
    <2> QED BY <2>1, <2>2, <2>3
  <1> QED BY <1>1, <1>2, FS_EmptySet, FS_CardinalityType DEF Count

\* As many as that, and no more than there are.
LEMMA CountType ==
  ASSUME NEW l \in Nat, NEW S \in SUBSET (1..l), NEW i
  PROVE  IsFiniteSet(Upto(S, i)) /\ Count(S, i) \in Nat /\ Count(S, i) <= Cardinality(S)
  <1>1. IsFiniteSet(S)
    BY CountBounds
  <1>2. PICK u : u = Upto(S, i)
    OBVIOUS
  <1>3. u \in SUBSET S
    BY <1>2 DEF Upto
  <1>4. IsFiniteSet(u) /\ Cardinality(u) <= Cardinality(S)
    BY <1>1, <1>3, FS_Subset
  <1>5. Cardinality(u) \in Nat
    BY <1>4, FS_CardinalityType
  <1> QED BY <1>2, <1>4, <1>5 DEF Count

\* One more where there is one.
LEMMA CountNext ==
  ASSUME NEW l \in Nat, NEW S \in SUBSET (1..l), NEW i \in Nat, NEW j \in Nat, j = i + 1
  PROVE  Count(S, j) = IF j \in S THEN Count(S, i) + 1 ELSE Count(S, i)
  <1>1. IsFiniteSet(Upto(S, i)) /\ Count(S, i) \in Nat
    BY CountType
  <1>2. \A x \in S : (x <= j <=> x <= i \/ x = j) /\ ~(j <= i)
    OBVIOUS
  <1>3. /\ \A x : x \in Upto(S, i) <=> x \in S /\ x <= i
        /\ \A x : x \in Upto(S, j) <=> x \in S /\ x <= j
    BY UptoIn
  <1>4. CASE j \in S
    <2>1. Upto(S, j) = Upto(S, i) \cup {j} /\ j \notin Upto(S, i)
      BY <1>2, <1>3, <1>4
    <2>2. Cardinality(Upto(S, i) \cup {j}) = Cardinality(Upto(S, i)) + 1
      BY <1>1, <2>1, FS_AddElement
    <2> QED BY <1>4, <2>1, <2>2 DEF Count
  <1>5. CASE j \notin S
    <2>1. Upto(S, j) = Upto(S, i)
      BY <1>2, <1>3, <1>5
    <2> QED BY <1>5, <2>1 DEF Count
  <1> QED BY <1>4, <1>5

\* More are counted up to a position of the set than before it.
LEMMA CountGrows ==
  ASSUME NEW l \in Nat, NEW S \in SUBSET (1..l), NEW i \in Nat, NEW j \in S, i < j
  PROVE  Count(S, i) < Count(S, j)
  <1>1. j \in Nat
    OBVIOUS
  <1>2. IsFiniteSet(Upto(S, i)) /\ Count(S, i) \in Nat /\ IsFiniteSet(Upto(S, j))
        /\ Count(S, j) \in Nat
    BY <1>1, CountType
  <1>3. Upto(S, i) \cup {j} \in SUBSET Upto(S, j) /\ j \notin Upto(S, i)
    <2>1. \A n \in S : n <= i => n <= j
      BY <1>1
    <2>2. ~(j <= i) /\ j <= j
      BY <1>1
    <2>3. /\ \A x : x \in Upto(S, i) <=> x \in S /\ x <= i
          /\ \A x : x \in Upto(S, j) <=> x \in S /\ x <= j
      BY <1>1, UptoIn
    <2> QED BY <2>1, <2>2, <2>3
  <1>4. Cardinality(Upto(S, i) \cup {j}) = Count(S, i) + 1
    BY <1>2, <1>3, FS_AddElement DEF Count
  <1>5. Cardinality(Upto(S, i) \cup {j}) <= Count(S, j)
    BY <1>2, <1>3, FS_Subset DEF Count
  <1> QED BY <1>2, <1>4, <1>5

\* A position is the one of its own number.
LEMMA NthIs ==
  ASSUME NEW l \in Nat, NEW S \in SUBSET (1..l), NEW i \in S, NEW k, Count(S, i) = k
  PROVE  Nth(S, k) = i
  <1>1. i \in Nat /\ Cardinality(S \cap (1..i)) = k
    BY DEF Count, Upto
  <1>2. PICK n : n = Nth(S, k)
    OBVIOUS
  <1>3. n \in S /\ Count(S, n) = k
    BY <1>1, <1>2 DEF Nth, Count, Upto
  <1>4. n \in Nat
    BY <1>3
  <1>5. ~(n < i) /\ ~(i < n)
    <2>1. Count(S, i) \in Nat
      BY <1>1, CountType
    <2>2. ASSUME n < i PROVE FALSE
      BY <1>3, <1>4, <2>1, <2>2, CountGrows
    <2>3. ASSUME i < n PROVE FALSE
      <3>1. Count(S, i) < Count(S, n)
        BY <1>1, <1>3, <2>3, CountGrows
      <3> QED BY <1>3, <2>1, <3>1
    <2> QED BY <2>2, <2>3
  <1> QED BY <1>1, <1>2, <1>4, <1>5

\* There is one of every number.
LEMMA NthOf ==
  ASSUME NEW l \in Nat, NEW S \in SUBSET (1..l), NEW k \in 1..Cardinality(S)
  PROVE  Nth(S, k) \in S /\ Count(S, Nth(S, k)) = k
  <1>1. Cardinality(S) \in Nat /\ Count(S, l) = Cardinality(S) /\ Count(S, 0) = 0
    BY CountBounds
  <1> DEFINE M == {i \in Nat : Count(S, i) >= k}
  <1>2. l \in M
    BY <1>1
  <1>3. PICK m \in M : \A i \in M : m <= i
    BY <1>2, LeastNat
  <1>4. m \in Nat /\ m # 0 /\ Count(S, m) >= k
    BY <1>1, <1>3
  <1>5. PICK p \in Nat : m = p + 1
    <2>1. m - 1 \in Nat /\ m = m - 1 + 1
      BY <1>4
    <2> QED BY <2>1
  <1>6. Count(S, p) \in Nat
    BY CountType
  <1>7. Count(S, p) < k
    <2>1. p \notin M
      BY <1>3, <1>5
    <2> QED BY <1>1, <1>6, <2>1
  <1>8. Count(S, m) = IF m \in S THEN Count(S, p) + 1 ELSE Count(S, p)
    BY <1>4, <1>5, CountNext
  <1>9. m \in S /\ Count(S, m) = k
    BY <1>1, <1>4, <1>6, <1>7, <1>8
  <1>10. Nth(S, k) = m
    BY <1>9, NthIs
  <1> QED BY <1>9, <1>10

-----------------------------------------------------------------------------
(* The lines of a text.                                                     *)

\* The last character is the end of a line, and so is every newline.
LEMMA EndsIn ==
  ASSUME NEW T, NEW t \in Seq(T)
  PROVE  /\ Len(t) \in Nat /\ Ends(t) \in SUBSET (1..Len(t))
         /\ Len(t) # 0 => Len(t) \in Ends(t)
         /\ Cardinality(Ends(t)) \in Nat
         /\ Count(Ends(t), 0) = 0 /\ Count(Ends(t), Len(t)) = Cardinality(Ends(t))
         /\ \A i \in 1..Len(t) : i \in Ends(t) <=> t[i] = "n" \/ i = Len(t)
  <1>1. Len(t) \in Nat /\ DOMAIN t = 1..Len(t)
    BY LenProperties
  <1>2. Ends(t) \in SUBSET (1..Len(t)) /\ (Len(t) # 0 => Len(t) \in Ends(t))
        /\ \A i \in 1..Len(t) : i \in Ends(t) <=> t[i] = "n" \/ i = Len(t)
    <2>1. Ends(t) = {i \in 1..Len(t) : t[i] = "n" \/ i = Len(t)}
      BY <1>1 DEF Ends
    <2>2. Len(t) # 0 => Len(t) \in 1..Len(t)
      BY <1>1
    <2> QED BY <2>1, <2>2
  <1>3. PICK S : S = Ends(t)
    OBVIOUS
  <1>4. Cardinality(S) \in Nat /\ Count(S, 0) = 0 /\ Count(S, Len(t)) = Cardinality(S)
    BY <1>1, <1>2, <1>3, CountBounds
  <1> QED BY <1>1, <1>2, <1>3, <1>4

\* The end of the k-th line.
LEMMA EndIs ==
  ASSUME NEW T, NEW t \in Seq(T), NEW k \in 0..Cardinality(Ends(t))
  PROVE  /\ End(t, k) \in 0..Len(t) /\ Count(Ends(t), End(t, k)) = k
         /\ k # 0 => End(t, k) \in Ends(t)
  <1>1. /\ Len(t) \in Nat /\ Ends(t) \in SUBSET (1..Len(t))
        /\ Cardinality(Ends(t)) \in Nat /\ Count(Ends(t), 0) = 0
    BY EndsIn
  <1>2. CASE k = 0
    BY <1>1, <1>2 DEF End
  <1>3. CASE k # 0
    <2>1. k \in 1..Cardinality(Ends(t))
      BY <1>1, <1>3
    <2>2. Nth(Ends(t), k) \in Ends(t) /\ Count(Ends(t), Nth(Ends(t), k)) = k
      BY <1>1, <2>1, NthOf
    <2>3. End(t, k) = Nth(Ends(t), k)
      BY <1>3 DEF End
    <2> QED BY <1>1, <2>2, <2>3
  <1> QED BY <1>2, <1>3

\* An end that is the k-th is that of the k-th line.
LEMMA EndAt ==
  ASSUME NEW T, NEW t \in Seq(T), NEW i \in Ends(t), NEW k, Count(Ends(t), i) = k
  PROVE  End(t, k) = i
  <1>1. /\ Len(t) \in Nat /\ Ends(t) \in SUBSET (1..Len(t)) /\ Count(Ends(t), 0) = 0
    BY EndsIn
  <1>2. Nth(Ends(t), k) = i
    BY <1>1, NthIs
  <1>3. 0 < i
    BY <1>1
  <1>4. PICK S : S = Ends(t)
    OBVIOUS
  <1>5. Count(S, 0) < Count(S, i)
    BY <1>1, <1>3, <1>4, CountGrows
  <1> QED BY <1>1, <1>2, <1>4, <1>5 DEF End

\* The last line ends with the text.
LEMMA LastEnd ==
  ASSUME NEW T, NEW t \in Seq(T)
  PROVE  End(t, Cardinality(Ends(t))) = Len(t)
  <1>1. /\ Len(t) \in Nat /\ Count(Ends(t), Len(t)) = Cardinality(Ends(t))
        /\ Count(Ends(t), 0) = 0
        /\ Len(t) # 0 => Len(t) \in Ends(t)
    BY EndsIn
  <1>2. CASE Len(t) = 0
    BY <1>1, <1>2 DEF End
  <1>3. CASE Len(t) # 0
    BY <1>1, <1>3, EndAt
  <1> QED BY <1>2, <1>3

\* A line ends where a later one does not.
LEMMA EndsGrow ==
  ASSUME NEW T, NEW t \in Seq(T), NEW j \in 0..Cardinality(Ends(t)),
         NEW k \in 0..Cardinality(Ends(t)), j < k
  PROVE  End(t, j) < End(t, k)
  <1>1. /\ Len(t) \in Nat /\ Ends(t) \in SUBSET (1..Len(t)) /\ Cardinality(Ends(t)) \in Nat
    BY EndsIn
  <1>2. PICK p : p = End(t, j)
    OBVIOUS
  <1>3. PICK q : q = End(t, k)
    OBVIOUS
  <1>4. p \in 0..Len(t) /\ Count(Ends(t), p) = j /\ (j # 0 => p \in Ends(t))
    BY <1>2, EndIs
  <1>5. q \in 0..Len(t) /\ Count(Ends(t), q) = k /\ (k # 0 => q \in Ends(t))
    BY <1>3, EndIs
  <1>6. ASSUME q < p
        PROVE  FALSE
    <2>1. p \in Ends(t)
      BY <1>2, <1>4, <1>5, <1>6, <1>1 DEF End
    <2>2. PICK S : S = Ends(t)
      OBVIOUS
    <2>3. q \in Nat /\ p \in S /\ S \in SUBSET (1..Len(t)) /\ Len(t) \in Nat
      BY <1>1, <1>5, <2>1, <2>2
    <2>4. Count(S, q) < Count(S, p)
      BY <1>6, <2>3, CountGrows
    <2> QED BY <1>1, <1>4, <1>5, <2>2, <2>4
  <1>7. p # q
    BY <1>1, <1>4, <1>5
  <1> QED BY <1>1, <1>2, <1>3, <1>4, <1>5, <1>6, <1>7

\* There is a line for every end, and it is a text.
LEMMA LinesAre ==
  ASSUME NEW T, NEW t \in Seq(T)
  PROVE  /\ Lines(t) \in Seq(Seq(T)) /\ Len(Lines(t)) = Cardinality(Ends(t))
         /\ Cardinality(Ends(t)) \in Nat
         /\ \A k \in 1..Cardinality(Ends(t)) :
              Lines(t)[k] = SubSeq(t, End(t, k - 1) + 1, End(t, k))
  <1> DEFINE ST == Seq(T)
  <1>1. PICK m \in Nat : m = Cardinality(Ends(t))
    BY EndsIn
  <1>2. ASSUME NEW k \in 1..m
        PROVE  SubSeq(t, End(t, k - 1) + 1, End(t, k)) \in ST
    <2>1. k - 1 \in 0..m /\ k \in 0..m
      BY <1>1
    <2>2. PICK j \in 0..m : j = k - 1
      BY <2>1
    <2>3. PICK p : p = End(t, j)
      OBVIOUS
    <2>4. PICK q : q = End(t, k)
      OBVIOUS
    <2>5. p \in 0..Len(t) /\ q \in 0..Len(t) /\ Len(t) \in Nat
      BY <1>1, <2>1, <2>3, <2>4, EndIs, EndsIn
    <2>6. PICK r \in Nat \ {0} : r = p + 1
      BY <2>5
    <2>7. SubSeq(t, r, q) \in Seq(T)
      BY <2>5, Cut
    <2> QED BY <2>2, <2>3, <2>4, <2>6, <2>7
  <1> HIDE DEF ST
  <1>3. Lines(t) = [k \in 1..m |-> SubSeq(t, End(t, k - 1) + 1, End(t, k))]
    BY <1>1 DEF Lines
  <1>4. Lines(t) \in Seq(ST)
    BY <1>2, <1>3
  <1>5. Len(Lines(t)) = m /\ \A k \in 1..m : Lines(t)[k] = SubSeq(t, End(t, k - 1) + 1, End(t, k))
    <2>1. DOMAIN Lines(t) = 1..m
      BY <1>3
    <2>2. DOMAIN Lines(t) = 1..Len(Lines(t)) /\ Len(Lines(t)) \in Nat
      BY <1>4, LenProperties
    <2>3. Len(Lines(t)) = m
      BY <1>1, <2>1, <2>2
    <2> QED BY <1>3, <2>3
  <1> QED BY <1>1, <1>4, <1>5 DEF ST

\* The same piece of two texts, and one further on.
LEMMA ShiftedCut ==
  ASSUME NEW T, NEW t \in Seq(T), NEW v \in Seq(T), NEW a \in Nat, Len(t) = a + Len(v),
         NEW p \in 0..Len(v), NEW q \in 0..Len(v),
         \A j \in 1..Len(v) : t[a + j] = v[j]
  PROVE  SubSeq(t, a + p + 1, a + q) = SubSeq(v, p + 1, q)
  <1>1. Len(v) \in Nat
    BY LenProperties
  <1>2. PICK x \in Nat \ {0} : x = a + p + 1
    BY <1>1
  <1>3. PICK y \in Nat : y = a + q
    BY <1>1
  <1>4. PICK z \in Nat \ {0} : z = p + 1
    BY <1>1
  <1>5. y <= Len(t) /\ q \in Nat /\ q <= Len(v) /\ (x <= y <=> z <= q) /\ y - x = q - z
    BY <1>1, <1>2, <1>3, <1>4
  <1>6. PICK l : l = q - z + 1
    OBVIOUS
  <1>7. /\ SubSeq(t, x, y) \in Seq(T)
        /\ Len(SubSeq(t, x, y)) = IF x <= y THEN y - x + 1 ELSE 0
        /\ \A i \in 1..(y - x + 1) : SubSeq(t, x, y)[i] = t[x + i - 1]
    BY <1>5, Cut
  <1>8. /\ SubSeq(v, z, q) \in Seq(T)
        /\ Len(SubSeq(v, z, q)) = IF z <= q THEN q - z + 1 ELSE 0
        /\ \A i \in 1..(q - z + 1) : SubSeq(v, z, q)[i] = v[z + i - 1]
    BY <1>5, Cut
  <1>9. PICK r : r = SubSeq(t, x, y)
    OBVIOUS
  <1>10. PICK s : s = SubSeq(v, z, q)
    OBVIOUS
  <1>11. /\ r \in Seq(T) /\ Len(r) = (IF z <= q THEN l ELSE 0)
         /\ \A i \in 1..l : r[i] = t[x + i - 1]
    BY <1>5, <1>6, <1>7, <1>9
  <1>12. /\ s \in Seq(T) /\ Len(s) = (IF z <= q THEN l ELSE 0)
         /\ \A i \in 1..l : s[i] = v[z + i - 1]
    BY <1>5, <1>6, <1>8, <1>10
  <1>13. ASSUME NEW i \in 1..Len(r)
         PROVE  r[i] = s[i]
    <2>1. i \in 1..l
      BY <1>1, <1>4, <1>5, <1>6, <1>11
    <2>2. PICK j : j = z + i - 1
      OBVIOUS
    <2>3. j \in 1..Len(v) /\ x + i - 1 = a + j
      BY <1>1, <1>2, <1>4, <1>6, <2>1, <2>2
    <2>4. t[a + j] = v[j]
      BY <2>3
    <2> QED BY <1>11, <1>12, <2>1, <2>2, <2>3, <2>4
  <1>14. r = s
    BY <1>11, <1>12, <1>13, SameSeq
  <1> QED BY <1>2, <1>3, <1>4, <1>9, <1>10, <1>14

\* A piece of a text is one of any text that begins with it.
LEMMA SameCut ==
  ASSUME NEW T, NEW t \in Seq(T), NEW u \in Seq(T), Len(u) <= Len(t),
         NEW z \in Nat \ {0}, NEW q \in 0..Len(u),
         \A j \in 1..Len(u) : t[j] = u[j]
  PROVE  SubSeq(t, z, q) = SubSeq(u, z, q)
  <1>1. Len(u) \in Nat /\ Len(t) \in Nat
    BY LenProperties
  <1>3. q \in Nat /\ q <= Len(u) /\ q <= Len(t)
    BY <1>1
  <1>4. /\ SubSeq(t, z, q) \in Seq(T)
        /\ Len(SubSeq(t, z, q)) = IF z <= q THEN q - z + 1 ELSE 0
        /\ \A i \in 1..(q - z + 1) : SubSeq(t, z, q)[i] = t[z + i - 1]
    BY <1>3, Cut
  <1>5. /\ SubSeq(u, z, q) \in Seq(T)
        /\ Len(SubSeq(u, z, q)) = IF z <= q THEN q - z + 1 ELSE 0
        /\ \A i \in 1..(q - z + 1) : SubSeq(u, z, q)[i] = u[z + i - 1]
    BY <1>3, Cut
  <1>6. PICK r : r = SubSeq(t, z, q)
    OBVIOUS
  <1>7. PICK s : s = SubSeq(u, z, q)
    OBVIOUS
  <1>8. ASSUME NEW i \in 1..Len(r)
        PROVE  r[i] = s[i]
    <2>1. i \in 1..(q - z + 1)
      BY <1>3, <1>4, <1>6, <1>8
    <2>2. PICK j : j = z + i - 1
      OBVIOUS
    <2>3. j \in 1..Len(u)
      BY <1>1, <1>3, <2>1, <2>2
    <2> QED BY <1>4, <1>5, <1>6, <1>7, <2>1, <2>2, <2>3
  <1>9. r = s
    BY <1>4, <1>5, <1>6, <1>7, <1>8, SameSeq
  <1> QED BY <1>6, <1>7, <1>9

-----------------------------------------------------------------------------
(* The lines of two texts, the first of which ends in a newline.            *)

(* t is v behind u, whose last line has a newline. *)
Follows(u, v, t) == u # <<>> /\ Last(u) = "n" /\ t = u \o v

\* A text v behind a text u whose last line has ended: characters and line ends.
LEMMA JoinedEnds ==
  ASSUME NEW T, NEW u \in Seq(T), NEW v \in Seq(T), NEW t, Follows(u, v, t)
  PROVE  /\ t \in Seq(T) /\ Len(t) = Len(u) + Len(v) /\ Len(u) \in Nat \ {0} /\ Len(v) \in Nat
         /\ \A i \in 1..Len(u) : t[i] = u[i] /\ (i \in Ends(t) <=> i \in Ends(u))
         /\ \A j \in 1..Len(v) :
              t[Len(u) + j] = v[j] /\ (Len(u) + j \in Ends(t) <=> j \in Ends(v))
  <1>1. PICK a : a = Len(u)
    OBVIOUS
  <1>2. PICK b : b = Len(v)
    OBVIOUS
  <1>3. /\ t \in Seq(T) /\ Len(t) = a + b /\ a \in Nat /\ b \in Nat
        /\ \A i \in 1..a : t[i] = u[i]
        /\ \A j \in 1..b : t[a + j] = v[j]
    BY <1>1, <1>2, Joined DEF Follows
  <1>4. a # 0
    BY <1>1, EmptySeq DEF Follows
  <1>5. u[a] = "n"
    BY <1>1 DEF Last, Follows
  <1>6. ASSUME NEW i \in 1..a
        PROVE  i \in Ends(t) <=> i \in Ends(u)
    <2>1. i \in 1..Len(t) /\ (i = a + b => i = a)
      BY <1>3
    <2>2. i \in Ends(t) <=> t[i] = "n" \/ i = a + b
      BY <1>3, <2>1, EndsIn
    <2>3. i \in Ends(u) <=> u[i] = "n" \/ i = a
      BY <1>1, EndsIn
    <2> QED BY <1>3, <1>5, <2>1, <2>2, <2>3
  <1>7. ASSUME NEW j \in 1..b
        PROVE  a + j \in Ends(t) <=> j \in Ends(v)
    <2>1. PICK q : q = a + j
      OBVIOUS
    <2>2. q \in 1..Len(t) /\ (q = a + b <=> j = b)
      <3>1. Len(t) = a + b /\ a \in Nat /\ b \in Nat
        BY <1>3
      <3> QED BY <2>1, <3>1
    <2>3. q \in Ends(t) <=> t[q] = "n" \/ q = a + b
      BY <1>3, <2>2, EndsIn
    <2>4. j \in Ends(v) <=> v[j] = "n" \/ j = b
      BY <1>2, EndsIn
    <2>5. t[q] = v[j]
      BY <1>3, <2>1
    <2> QED BY <2>1, <2>2, <2>3, <2>4, <2>5
  <1> QED BY <1>1, <1>2, <1>3, <1>4, <1>6, <1>7

\* Positions of the first are counted as they were.
LEMMA FirstCounts ==
  ASSUME NEW T, NEW u \in Seq(T), NEW v \in Seq(T), NEW t, Follows(u, v, t),
         NEW i \in 0..Len(u)
  PROVE  Count(Ends(t), i) = Count(Ends(u), i)
  <1>1. /\ Len(t) = Len(u) + Len(v) /\ Len(u) \in Nat /\ Len(v) \in Nat /\ t \in Seq(T)
        /\ \A n \in 1..Len(u) : n \in Ends(t) <=> n \in Ends(u)
    BY JoinedEnds
  <1>2. Ends(t) \in SUBSET (1..Len(t)) /\ Ends(u) \in SUBSET (1..Len(u))
    BY <1>1, EndsIn
  <1>3. ASSUME NEW n
        PROVE  n \in Upto(Ends(t), i) <=> n \in Upto(Ends(u), i)
    <2>1. n \in Ends(t) /\ n <= i => n \in 1..Len(u)
      BY <1>1, <1>2
    <2>2. n \in Ends(u) => n \in 1..Len(u)
      BY <1>2
    <2>3. /\ n \in Upto(Ends(t), i) <=> n \in Ends(t) /\ n <= i
          /\ n \in Upto(Ends(u), i) <=> n \in Ends(u) /\ n <= i
      <3>1. i \in Nat
        BY <1>1
      <3>2. n \in Upto(Ends(t), i) <=> n \in Ends(t) /\ n <= i
        <4>1. Len(t) \in Nat /\ Ends(t) \in SUBSET (1..Len(t))
          BY <1>1, <1>2
        <4> QED BY <3>1, <4>1, UptoIn
      <3>3. n \in Upto(Ends(u), i) <=> n \in Ends(u) /\ n <= i
        BY <1>1, <1>2, <3>1, UptoIn
      <3> QED BY <3>2, <3>3
    <2> QED BY <1>1, <2>1, <2>2, <2>3
  <1>4. Upto(Ends(t), i) = Upto(Ends(u), i)
    BY <1>3
  <1> QED BY <1>4 DEF Count

\* Positions of the second are counted on from there.
LEMMA SecondCounts ==
  ASSUME NEW T, NEW u \in Seq(T), NEW v \in Seq(T), NEW t, Follows(u, v, t),
         NEW i \in 0..Len(v)
  PROVE  Count(Ends(t), Len(u) + i) = Cardinality(Ends(u)) + Count(Ends(v), i)
  <1>1. PICK a : a = Len(u)
    OBVIOUS
  <1>2. PICK b : b = Len(v)
    OBVIOUS
  <1>3. PICK R : R = Ends(t)
    OBVIOUS
  <1>4. PICK S : S = Ends(v)
    OBVIOUS
  <1>5. PICK c : c = Cardinality(Ends(u))
    OBVIOUS
  <1>6. /\ a \in Nat /\ b \in Nat /\ t \in Seq(T) /\ Len(t) = a + b
        /\ \A j \in 1..b : a + j \in R <=> j \in S
    BY <1>1, <1>2, <1>3, <1>4, JoinedEnds
  <1>7. PICK n \in Nat : n = a + b
    BY <1>6
  <1>8. R \in SUBSET (1..n)
    BY <1>3, <1>6, <1>7, EndsIn
  <1>9. S \in SUBSET (1..b) /\ Count(S, 0) = 0
    BY <1>2, <1>4, EndsIn
  <1>10. c \in Nat /\ Count(R, a) = c
    <2>1. Count(Ends(u), a) = c /\ c \in Nat
      BY <1>1, <1>5, EndsIn
    <2>2. a \in 0..Len(u)
      BY <1>1, <1>6
    <2>3. Count(Ends(t), a) = Count(Ends(u), a)
      BY <2>2, FirstCounts
    <2> QED BY <1>3, <2>1, <2>3
  <1> DEFINE D == {j \in 0..b : Count(R, a + j) # c + Count(S, j)}
  <1>11. ASSUME D # {}
         PROVE  FALSE
    <2>1. D \in SUBSET Nat
      BY <1>6
    <2>2. PICK j \in D : \A m \in D : j <= m
      BY <1>11, <2>1, LeastNat
    <2>3. j \in 0..b /\ Count(R, a + j) # c + Count(S, j)
      BY <2>2
    <2>4. j # 0
      <3>1. a + 0 = a
        BY <1>6
      <3> QED BY <1>9, <1>10, <2>3, <3>1
    <2>5. PICK p \in 0..b : j = p + 1 /\ ~(j <= p)
      <3>1. j - 1 \in 0..b /\ j = j - 1 + 1 /\ ~(j <= j - 1)
        BY <1>6, <2>3, <2>4
      <3> QED BY <3>1
    <2>6. Count(R, a + p) = c + Count(S, p)
      BY <2>2, <2>5
    <2>7. PICK y \in Nat : y = a + p
      BY <1>6, <2>5
    <2>8. PICK z \in Nat : z = a + j
      BY <1>6, <2>3
    <2>9. z = y + 1 /\ j \in 1..b /\ p \in Nat /\ j \in Nat
      BY <1>6, <2>3, <2>4, <2>5, <2>7, <2>8
    <2>10. Count(R, z) = IF z \in R THEN Count(R, y) + 1 ELSE Count(R, y)
      BY <1>7, <1>8, <2>9, CountNext
    <2>11. Count(S, j) = IF j \in S THEN Count(S, p) + 1 ELSE Count(S, p)
      BY <1>6, <1>9, <2>5, <2>9, CountNext
    <2>12. z \in R <=> j \in S
      BY <1>6, <2>8, <2>9
    <2>13. Count(S, p) \in Nat
      BY <1>6, <1>9, CountType
    <2> QED BY <1>10, <2>3, <2>6, <2>7, <2>8, <2>10, <2>11, <2>12, <2>13
  <1>12. Count(R, a + i) = c + Count(S, i)
    BY <1>2, <1>11
  <1> QED BY <1>1, <1>3, <1>4, <1>5, <1>12

\* Lines of two such texts are those of the first and then those of the second.
LEMMA JoinedLines ==
  ASSUME NEW T, NEW u \in Seq(T), NEW v \in Seq(T), u # <<>>, Last(u) = "n"
  PROVE  Lines(u \o v) = Lines(u) \o Lines(v)
  <1>1. PICK t : t = u \o v /\ Follows(u, v, t)
    BY DEF Follows
  <1>2. PICK a : a = Len(u)
    OBVIOUS
  <1>3. PICK b : b = Len(v)
    OBVIOUS
  <1>4. PICK c : c = Cardinality(Ends(u))
    OBVIOUS
  <1>5. PICK d : d = Cardinality(Ends(v))
    OBVIOUS
  <1>6. /\ t \in Seq(T) /\ Len(t) = a + b /\ a \in Nat /\ b \in Nat
        /\ \A i \in 1..a : t[i] = u[i] /\ (i \in Ends(t) <=> i \in Ends(u))
        /\ \A j \in 1..b : t[a + j] = v[j] /\ (a + j \in Ends(t) <=> j \in Ends(v))
    BY <1>1, <1>2, <1>3, JoinedEnds
  <1>7. c \in Nat /\ d \in Nat /\ Ends(u) \in SUBSET (1..a) /\ Ends(v) \in SUBSET (1..b)
    BY <1>2, <1>3, <1>4, <1>5, EndsIn
  <1>8. Cardinality(Ends(t)) = c + d
    <2>1. Count(Ends(t), a + b) = Cardinality(Ends(t))
      BY <1>6, EndsIn
    <2>2. Count(Ends(v), b) = d
      BY <1>3, <1>5, EndsIn
    <2>3. b \in 0..Len(v)
      BY <1>3, <1>6
    <2>4. Count(Ends(t), a + b) = c + Count(Ends(v), b)
      BY <1>1, <1>2, <1>4, <2>3, SecondCounts
    <2> QED BY <2>1, <2>2, <2>4
  <1>9. ASSUME NEW k \in 0..c
        PROVE  End(t, k) = End(u, k) /\ End(u, k) \in 0..a
    <2>1. PICK e : e = End(u, k)
      OBVIOUS
    <2>2. e \in 0..a /\ Count(Ends(u), e) = k /\ (k # 0 => e \in Ends(u))
      BY <1>2, <1>4, <2>1, EndIs
    <2>3. Count(Ends(t), e) = k
      BY <1>1, <1>2, <2>2, FirstCounts
    <2>4. CASE k = 0
      BY <2>1, <2>2, <2>4 DEF End
    <2>5. CASE k # 0
      <3>1. e \in Ends(t)
        BY <1>6, <1>7, <2>2, <2>5
      <3>2. End(t, k) = e
        BY <1>6, <2>3, <3>1, EndAt
      <3> QED BY <2>1, <2>2, <3>2
    <2> QED BY <2>4, <2>5
  <1>10. ASSUME NEW k \in 0..d, NEW m, m = c + k
         PROVE  End(t, m) = a + End(v, k) /\ End(v, k) \in 0..b
    <2>1. PICK e : e = End(v, k)
      OBVIOUS
    <2>2. e \in 0..b /\ Count(Ends(v), e) = k /\ (k # 0 => e \in Ends(v))
      BY <1>3, <1>5, <2>1, EndIs
    <2>3. CASE k = 0
      <3>1. e = 0 /\ m = c
        BY <1>7, <1>10, <2>1, <2>3 DEF End
      <3>2. End(u, c) = a
        BY <1>2, <1>4, LastEnd
      <3>3. c \in 0..c
        BY <1>7
      <3>4. End(t, m) = a
        BY <1>9, <3>1, <3>2, <3>3
      <3> QED BY <1>6, <2>1, <2>2, <3>1, <3>4
    <2>4. CASE k # 0
      <3>1. e \in 1..b /\ e \in Ends(v)
        BY <1>7, <2>2, <2>4
      <3>2. PICK q : q = a + e
        OBVIOUS
      <3>3. q \in Ends(t)
        BY <1>6, <3>1, <3>2
      <3>4. Count(Ends(t), q) = m
        <4>1. e \in 0..Len(v)
          BY <1>3, <2>2
        <4>2. Count(Ends(t), a + e) = c + Count(Ends(v), e)
          BY <1>1, <1>2, <1>4, <4>1, SecondCounts
        <4> QED BY <1>10, <2>2, <3>2, <4>2
      <3>5. End(t, m) = q
        BY <1>6, <3>3, <3>4, EndAt
      <3> QED BY <2>1, <2>2, <3>2, <3>5
    <2> QED BY <2>3, <2>4
  <1> DEFINE ST == Seq(T)
  <1>11. PICK r : r = Lines(u)
    OBVIOUS
  <1>12. PICK s : s = Lines(v)
    OBVIOUS
  <1>13. PICK l : l = Lines(t)
    OBVIOUS
  <1>14. /\ r \in Seq(ST) /\ Len(r) = c
         /\ \A k \in 1..c : r[k] = SubSeq(u, End(u, k - 1) + 1, End(u, k))
    BY <1>4, <1>11, LinesAre
  <1>15. /\ s \in Seq(ST) /\ Len(s) = d
         /\ \A k \in 1..d : s[k] = SubSeq(v, End(v, k - 1) + 1, End(v, k))
    BY <1>5, <1>12, LinesAre
  <1>16. /\ l \in Seq(ST) /\ Len(l) = c + d
         /\ \A k \in 1..c + d : l[k] = SubSeq(t, End(t, k - 1) + 1, End(t, k))
    BY <1>6, <1>8, <1>13, LinesAre
  <1>17. ASSUME NEW k \in 1..c
         PROVE  l[k] = r[k]
    <2>1. PICK j : j = k - 1
      OBVIOUS
    <2>2. j \in 0..c /\ k \in 0..c /\ k \in 1..c + d
      BY <1>7, <2>1
    <2>3. PICK p : p = End(u, j)
      OBVIOUS
    <2>4. PICK q : q = End(u, k)
      OBVIOUS
    <2>5. p \in 0..a /\ q \in 0..a /\ End(t, j) = p /\ End(t, k) = q
      BY <1>9, <2>2, <2>3, <2>4
    <2>6. l[k] = SubSeq(t, p + 1, q) /\ r[k] = SubSeq(u, p + 1, q)
      BY <1>14, <1>16, <2>1, <2>2, <2>3, <2>4, <2>5
    <2>7. p \in 0..Len(u) /\ q \in 0..Len(u)
      BY <1>2, <2>5
    <2>8. SubSeq(t, p + 1, q) = SubSeq(u, p + 1, q)
      <3>1. Len(u) <= Len(t) /\ \A i \in 1..Len(u) : t[i] = u[i]
        BY <1>2, <1>6
      <3>2. PICK x \in Nat \ {0} : x = p + 1
        BY <1>6, <2>5
      <3>3. SubSeq(t, x, q) = SubSeq(u, x, q)
        BY <1>6, <2>7, <3>1, SameCut
      <3> QED BY <3>2, <3>3
    <2> QED BY <2>6, <2>8
  <1>18. ASSUME NEW k \in 1..d
         PROVE  l[c + k] = s[k]
    <2>1. PICK j : j = k - 1
      OBVIOUS
    <2>2. PICK m : m = c + k
      OBVIOUS
    <2>3. PICK n : n = c + j
      OBVIOUS
    <2>4. j \in 0..d /\ k \in 0..d /\ m \in 1..c + d /\ m - 1 = n
      BY <1>7, <2>1, <2>2, <2>3
    <2>5. PICK p : p = End(v, j)
      OBVIOUS
    <2>6. PICK q : q = End(v, k)
      OBVIOUS
    <2>7. p \in 0..b /\ q \in 0..b /\ End(t, n) = a + p /\ End(t, m) = a + q
      BY <1>10, <2>2, <2>3, <2>4, <2>5, <2>6
    <2>8. l[m] = SubSeq(t, a + p + 1, a + q) /\ s[k] = SubSeq(v, p + 1, q)
      BY <1>15, <1>16, <2>1, <2>4, <2>5, <2>6, <2>7
    <2>9. SubSeq(t, a + p + 1, a + q) = SubSeq(v, p + 1, q)
      BY <1>3, <1>6, <2>7, ShiftedCut
    <2> QED BY <2>2, <2>8, <2>9
  <1> HIDE DEF ST
  <1>19. /\ r \o s \in Seq(ST) /\ Len(r \o s) = c + d
         /\ \A k \in 1..c : (r \o s)[k] = r[k]
         /\ \A k \in 1..d : (r \o s)[c + k] = s[k]
    <2>1. r \in Seq(ST) /\ s \in Seq(ST) /\ Len(r) = c /\ Len(s) = d
      BY <1>14, <1>15
    <2> QED BY <2>1, Joined
  <1>20. ASSUME NEW k \in 1..c + d
         PROVE  l[k] = (r \o s)[k]
    <2>1. CASE k <= c
      <3>1. k \in 1..c
        BY <1>7, <2>1
      <3> QED BY <1>17, <1>19, <3>1
    <2>2. CASE ~(k <= c)
      <3>1. PICK j : j = k - c
        OBVIOUS
      <3>2. j \in 1..d /\ k = c + j
        BY <1>7, <2>2, <3>1
      <3> QED BY <1>18, <1>19, <3>2
    <2> QED BY <2>1, <2>2
  <1>21. l = r \o s
    BY <1>16, <1>19, <1>20, SameSeq
  <1> QED BY <1>1, <1>11, <1>12, <1>13, <1>21

-----------------------------------------------------------------------------
(* Insertion.                                                               *)

\* Nothing is added before or behind.
LEMMA EmptyPieces ==
  ASSUME NEW T, NEW s \in Seq(T)
  PROVE  s \o <<>> = s /\ <<>> \o s = s
  OBVIOUS

\* An empty text has no lines.
LEMMA NoLines == Lines(<<>>) = <<>> /\ Cardinality(Ends(<<>>)) = 0
  <1>1. <<>> \in Seq({}) /\ Len(<<>>) = 0
    OBVIOUS
  <1>2. /\ Ends(<<>>) \in SUBSET (1..0) /\ Count(Ends(<<>>), 0) = 0
        /\ Count(Ends(<<>>), 0) = Cardinality(Ends(<<>>))
    BY <1>1, EndsIn
  <1>3. PICK l : l = Lines(<<>>)
    OBVIOUS
  <1>4. l \in Seq(Seq({})) /\ Len(l) = 0
    BY <1>1, <1>2, <1>3, LinesAre
  <1>5. l = <<>>
    BY <1>4, EmptySeq
  <1> QED BY <1>2, <1>3, <1>5

\* What insert adds ends in a newline.
LEMMA PayloadIs ==
  ASSUME NEW T, "n" \in T, NEW x \in Seq(T)
  PROVE  Payload(x) \in Seq(T) /\ Payload(x) # <<>> /\ Last(Payload(x)) = "n"
  <1>1. CASE Finished(x)
    BY <1>1 DEF Payload, Finished, NoText
  <1>2. CASE ~Finished(x)
    <2>1. PICK y : y = Append(x, "n")
      OBVIOUS
    <2>2. y \in Seq(T) /\ Len(y) = Len(x) + 1 /\ y[Len(x) + 1] = "n" /\ Len(x) \in Nat
      BY <2>1, AppendProperties, LenProperties
    <2>3. y # <<>>
      BY <2>2
    <2> QED BY <1>2, <2>1, <2>2, <2>3 DEF Payload, Last
  <1> QED BY <1>1, <1>2

\* u is t up to its k-th line end, and w the rest.
Divides(t, k, u, w) ==
  u = SubSeq(t, 1, End(t, k)) /\ w = SubSeq(t, End(t, k) + 1, Len(t))

\* A text falls in two at the end of a line, and its lines with it.
LEMMA CutLines ==
  ASSUME NEW T, NEW t \in Seq(T), NEW k \in 0..Len(Lines(t)),
         NEW u, NEW w, Divides(t, k, u, w)
  PROVE  /\ u \in Seq(T) /\ w \in Seq(T) /\ t = u \o w
         /\ \/ /\ u = <<>> \/ Last(u) = "n"
               /\ Lines(u) = SubSeq(Lines(t), 1, k)
               /\ Lines(w) = SubSeq(Lines(t), k + 1, Len(Lines(t)))
            \/ k = Len(Lines(t)) /\ t # <<>> /\ Last(t) # "n" /\ u = t /\ w = <<>>
  <1> DEFINE e == End(t, k)
  <1>0. u = SubSeq(t, 1, e) /\ w = SubSeq(t, e + 1, Len(t))
    BY DEF Divides
  <1>1. PICK n \in Nat : n = Len(t) /\ Ends(t) \in SUBSET (1..n)
    BY EndsIn
  <1>2. PICK m \in Nat : m = Cardinality(Ends(t)) /\ m = Len(Lines(t))
    BY LinesAre
  <1>3. e \in 0..n /\ Count(Ends(t), e) = k /\ (k # 0 => e \in Ends(t)) /\ (k = 0 => e = 0)
    BY <1>1, <1>2, EndIs DEF End
  <1> HIDE DEF e
  <1>4. u \in Seq(T) /\ Len(u) = e /\ \A i \in 1..e : u[i] = t[i]
    BY <1>0, <1>1, <1>3, Prefix
  <1>5. w \in Seq(T) /\ Len(w) = n - e /\ \A i \in 1..n - e : w[i] = t[e + i]
    BY <1>0, <1>1, <1>3, Suffix
  <1>6. t = u \o w
    <2>1. PICK x : x = u \o w
      OBVIOUS
    <2>2. /\ x \in Seq(T) /\ Len(x) = n
          /\ \A i \in 1..e : x[i] = u[i]
          /\ \A i \in 1..n - e : x[e + i] = w[i]
      <3>1. /\ x \in Seq(T) /\ Len(x) = Len(u) + Len(w)
            /\ \A i \in 1..Len(u) : x[i] = u[i]
            /\ \A i \in 1..Len(w) : x[Len(u) + i] = w[i]
        <4>1. u \in Seq(T) /\ w \in Seq(T)
          BY <1>4, <1>5
        <4> QED BY <2>1, <4>1, Joined
      <3>2. Len(u) = e /\ Len(w) = n - e /\ e + (n - e) = n
        BY <1>1, <1>3, <1>4, <1>5
      <3> QED BY <3>1, <3>2
    <2>3. ASSUME NEW i \in 1..n
          PROVE  t[i] = x[i]
      <3>1. CASE i <= e
        BY <1>1, <1>3, <1>4, <2>2, <3>1
      <3>2. CASE ~(i <= e)
        <4>1. PICK j : j = i - e
          OBVIOUS
        <4>2. j \in 1..n - e /\ i = e + j
          BY <1>1, <1>3, <3>2, <4>1
        <4> QED BY <1>5, <2>2, <4>2
      <3> QED BY <3>1, <3>2
    <2> QED BY <1>1, <2>1, <2>2, <2>3, SameSeq
  <1>7. CASE e = 0
    <2>1. k = 0
      BY <1>1, <1>3, <1>7
    <2>2. u = <<>>
      BY <1>4, <1>7, EmptySeq
    <2>3. w = t
      BY <1>5, <1>6, <2>2, EmptyPieces
    <2>4. PICK l : l = Lines(t)
      OBVIOUS
    <2>5. l \in Seq(Seq(T))
      BY <2>4, LinesAre
    <2>6. SubSeq(l, 1, 0) = <<>> /\ SubSeq(l, 1, Len(l)) = l
      BY <2>5
    <2>7. Lines(u) = SubSeq(Lines(t), 1, k) /\ k + 1 = 1
      <3>1. Lines(u) = <<>>
        BY <2>2, NoLines
      <3>2. SubSeq(l, 1, k) = <<>>
        BY <2>1, <2>6
      <3> QED BY <2>1, <2>4, <3>1, <3>2
    <2>8. Lines(w) = SubSeq(Lines(t), k + 1, Len(Lines(t)))
      BY <2>3, <2>4, <2>6, <2>7
    <2> QED BY <1>4, <1>5, <1>6, <2>2, <2>7, <2>8
  <1>8. CASE e # 0 /\ t[e] = "n"
    <2>1. u # <<>> /\ Last(u) = "n"
      BY <1>1, <1>3, <1>4, <1>8, EmptySeq DEF Last
    <2>2. PICK r : r = Lines(u)
      OBVIOUS
    <2>3. PICK s : s = Lines(w)
      OBVIOUS
    <2>4. PICK l : l = Lines(t)
      OBVIOUS
    <2>5. l = r \o s
      BY <1>4, <1>5, <1>6, <2>1, <2>2, <2>3, <2>4, JoinedLines
    <2> DEFINE ST == Seq(T)
    <2>6. r \in Seq(ST) /\ s \in Seq(ST) /\ l \in Seq(ST) /\ Len(l) = m
      BY <1>2, <1>4, <1>5, <2>2, <2>3, <2>4, LinesAre
    <2>7. Len(r) = k
      <3>1. Follows(u, w, t)
        BY <1>6, <2>1 DEF Follows
      <3>2. e \in 0..Len(u)
        BY <1>1, <1>3, <1>4
      <3>3. Count(Ends(t), e) = Count(Ends(u), e)
        BY <1>4, <1>5, <3>1, <3>2, FirstCounts
      <3>4. Count(Ends(u), e) = Cardinality(Ends(u)) /\ Len(r) = Cardinality(Ends(u))
        BY <1>4, <2>2, EndsIn, LinesAre
      <3> QED BY <1>3, <3>3, <3>4
    <2> HIDE DEF ST
    <2>8. /\ Len(s) \in Nat /\ m = k + Len(s) /\ k \in Nat
          /\ \A i \in 1..k : l[i] = r[i]
          /\ \A i \in 1..Len(s) : l[k + i] = s[i]
      <3>1. /\ Len(l) = Len(r) + Len(s) /\ Len(r) \in Nat /\ Len(s) \in Nat
            /\ \A i \in 1..Len(r) : l[i] = r[i]
            /\ \A i \in 1..Len(s) : l[Len(r) + i] = s[i]
        BY <2>5, <2>6, Joined
      <3> QED BY <2>6, <2>7, <3>1
    <2>9. SubSeq(l, 1, k) = r
      <3>1. PICK x : x = SubSeq(l, 1, k)
        OBVIOUS
      <3>2. k \in 0..Len(l)
        BY <2>6, <2>8
      <3>3. x \in Seq(ST) /\ Len(x) = k /\ \A i \in 1..k : x[i] = l[i]
        BY <2>6, <3>1, <3>2, Prefix
      <3> QED BY <2>6, <2>7, <2>8, <3>1, <3>3, SameSeq
    <2>10. SubSeq(l, k + 1, Len(l)) = s
      <3>1. PICK x : x = SubSeq(l, k + 1, Len(l))
        OBVIOUS
      <3>2. k \in 0..Len(l)
        BY <2>6, <2>8
      <3>3. x \in Seq(ST) /\ Len(x) = Len(l) - k /\ \A i \in 1..Len(l) - k : x[i] = l[k + i]
        BY <2>6, <3>1, <3>2, Suffix
      <3>4. Len(l) - k = Len(s)
        BY <2>6, <2>8
      <3> QED BY <2>6, <2>8, <3>1, <3>3, <3>4, SameSeq
    <2> QED BY <1>4, <1>5, <1>6, <2>1, <2>2, <2>3, <2>4, <2>9, <2>10
  <1>9. CASE e # 0 /\ t[e] # "n"
    <2>1. e \in Ends(t) /\ e \in 1..n
      BY <1>1, <1>3, <1>9
    <2>2. e = n
      BY <1>1, <1>9, <2>1, EndsIn
    <2>3. k = m
      BY <1>1, <1>2, <1>3, <2>2, EndsIn
    <2>4. w = <<>>
      BY <1>1, <1>5, <2>2, EmptySeq
    <2>5. u = t
      BY <1>4, <1>6, <2>4, EmptyPieces
    <2>6. t # <<>> /\ Last(t) # "n"
      BY <1>1, <1>9, <2>2 DEF Last
    <2> QED BY <1>2, <1>4, <1>5, <1>6, <2>3, <2>4, <2>5, <2>6
  <1> QED BY <1>7, <1>8, <1>9

\* What insert makes of the lines of a text.
LEMMA InsertLines ==
  ASSUME NEW T, "n" \in T, NEW t \in Seq(T), NEW x \in Seq(T), NEW k \in 0..Len(Lines(t))
  PROVE  /\ Insert(t, k, x) \in Seq(T)
         /\ \/ Lines(Insert(t, k, x)) = SubSeq(Lines(t), 1, k) \o Lines(Payload(x))
                                          \o SubSeq(Lines(t), k + 1, Len(Lines(t)))
            \/ /\ k = Len(Lines(t)) /\ t # NoText /\ ~Finished(t)
               /\ Insert(t, k, x) = t \o Payload(x)
  <1>1. PICK e : e = End(t, k)
    OBVIOUS
  <1>2. PICK u : u = SubSeq(t, 1, e)
    OBVIOUS
  <1>3. PICK w : w = SubSeq(t, e + 1, Len(t))
    OBVIOUS
  <1>4. PICK y : y = Payload(x)
    OBVIOUS
  <1>5. Insert(t, k, x) = u \o y \o w
    BY <1>1, <1>2, <1>3, <1>4 DEF Insert
  <1>6. y \in Seq(T) /\ y # <<>> /\ Last(y) = "n"
    BY <1>4, PayloadIs
  <1>7. /\ u \in Seq(T) /\ w \in Seq(T) /\ t = u \o w
        /\ \/ /\ u = <<>> \/ Last(u) = "n"
              /\ Lines(u) = SubSeq(Lines(t), 1, k)
              /\ Lines(w) = SubSeq(Lines(t), k + 1, Len(Lines(t)))
           \/ k = Len(Lines(t)) /\ t # <<>> /\ Last(t) # "n" /\ u = t /\ w = <<>>
    <2>1. Divides(t, k, u, w)
      BY <1>1, <1>2, <1>3 DEF Divides
    <2> QED BY <2>1, CutLines
  <1>8. PICK z : z = u \o y
    OBVIOUS
  <1>9. z \in Seq(T) /\ z \o w \in Seq(T)
    BY <1>6, <1>7, <1>8, ConcatProperties
  <1>10. CASE /\ u = <<>> \/ Last(u) = "n"
              /\ Lines(u) = SubSeq(Lines(t), 1, k)
              /\ Lines(w) = SubSeq(Lines(t), k + 1, Len(Lines(t)))
    <2>1. z # <<>> /\ Last(z) = "n"
      <3>1. /\ Len(z) = Len(u) + Len(y) /\ Len(u) \in Nat /\ Len(y) \in Nat
            /\ \A i \in 1..Len(y) : z[Len(u) + i] = y[i]
        BY <1>6, <1>7, <1>8, Joined
      <3>2. Len(y) # 0
        BY <1>6, EmptySeq
      <3>3. Len(z) # 0 /\ z[Len(z)] = y[Len(y)]
        BY <3>1, <3>2
      <3> QED BY <1>6, <3>3 DEF Last
    <2>2. Lines(z) = Lines(u) \o Lines(y)
      <3>1. CASE u = <<>>
        <4>1. z = y
          BY <1>6, <1>8, <3>1, EmptyPieces
        <4>2. PICK r : r = Lines(y)
          OBVIOUS
        <4>3. r \in Seq(Seq(T))
          BY <1>6, <4>2, LinesAre
        <4>4. <<>> \o r = r
          BY <4>3, EmptyPieces
        <4> QED BY <3>1, <4>1, <4>2, <4>4, NoLines
      <3>2. CASE u # <<>>
        BY <1>6, <1>7, <1>8, <1>10, <3>2, JoinedLines
      <3> QED BY <3>1, <3>2
    <2>3. Lines(z \o w) = Lines(z) \o Lines(w)
      BY <1>7, <1>9, <2>1, JoinedLines
    <2> QED BY <1>4, <1>5, <1>8, <1>9, <1>10, <2>2, <2>3
  <1>11. CASE k = Len(Lines(t)) /\ t # <<>> /\ Last(t) # "n" /\ u = t /\ w = <<>>
    <2>1. z \o w = z
      BY <1>9, <1>11, EmptyPieces
    <2> QED BY <1>4, <1>5, <1>8, <1>9, <1>11, <2>1 DEF NoText, Finished
  <1> QED BY <1>7, <1>10, <1>11

-----------------------------------------------------------------------------
(* Types of texts.                                                          *)

\* What read_text returns is a text.
LEMMA ReadIsText == Read \subseteq Text /\ NoText \in Read
  BY DEF Text, Read, NoText

\* So is what is uploaded, looked for and put in.
LEMMA TextsTyped ==
  /\ Texts \subseteq Text /\ Olds \subseteq Text /\ News \subseteq Text
  BY TextsAreTexts DEF Text

\* read_text leaves no carriage return.
LEMMA ReadType ==
  ASSUME NEW t \in Text
  PROVE  ReadText(t) \in Read
  <1> DEFINE kept == DOMAIN t \ {i \in 2..Len(t) : t[i] = "n" /\ t[i-1] = "r"}
             m == Cardinality(kept)
             at(k) == LET c == t[Nth(kept, k)] IN IF c = "r" THEN "n" ELSE c
  <1>1. DOMAIN t = 1..Len(t) /\ Len(t) \in Nat
    BY LenProperties DEF Text
  <1>2. kept \in SUBSET (1..Len(t))
    BY <1>1
  <1>3. ReadText(t) = [k \in 1..m |-> at(k)]
    BY DEF ReadText
  <1>4. ASSUME NEW k \in 1..m
        PROVE  at(k) \in Chars \ {"r"}
    <2>1. PICK S : S = kept
      OBVIOUS
    <2> HIDE DEF kept
    <2>2. PICK i : i = Nth(S, k)
      OBVIOUS
    <2>3. i \in S
      BY <1>1, <1>2, <2>1, <2>2, NthOf
    <2>4. i \in 1..Len(t)
      BY <1>2, <2>1, <2>3
    <2>5. t[i] \in Chars
      BY <1>1, <2>4, ElementOfSeq DEF Text
    <2> QED BY <2>1, <2>2, <2>5 DEF Chars
  <1>5. m \in Nat
    BY <1>1, <1>2, CountBounds
  <1> HIDE DEF m, at, kept
  <1> QED BY <1>3, <1>4, <1>5 DEF Read

\* The one occurrence of old_str is replaced.
LEMMA ReplaceType ==
  ASSUME NEW T, NEW t \in Seq(T), NEW old, Len(old) \in Nat, NEW x \in Seq(T), CountsOne(t, old)
  PROVE  Replace(t, old, x) \in Seq(T)
  <1>1. Len(t) \in Nat
    BY LenProperties
  <1>2. PICK S : S = Occurrences(t, old)
    OBVIOUS
  <1>3. /\ S # {} /\ S \in SUBSET Nat
        /\ \A i \in S : i \in Nat \ {0} /\ i + Len(old) <= Len(t) + 1
    BY <1>1, <1>2 DEF CountsOne, Occurrences
  <1>4. \E i \in S : \A j \in S : i <= j
    BY <1>3, LeastNat
  <1>5. PICK i : i = FirstOf(S)
    OBVIOUS
  <1>6. i \in S
    BY <1>4, <1>5 DEF FirstOf
  <1>7. PICK n \in Nat : n = i - 1 /\ n <= Len(t)
    BY <1>1, <1>3, <1>6
  <1>8. PICK m \in Nat \ {0} : m = i + Len(old)
    BY <1>1, <1>3, <1>6
  <1>9. PICK u : u = SubSeq(t, 1, n)
    OBVIOUS
  <1>10. PICK w : w = SubSeq(t, m, Len(t))
    OBVIOUS
  <1>11. u \in Seq(T) /\ w \in Seq(T)
    BY <1>1, <1>7, <1>9, <1>10, Cut
  <1>12. Replace(t, old, x) = u \o x \o w
    BY <1>2, <1>5, <1>7, <1>8, <1>9, <1>10 DEF Replace
  <1> QED BY <1>11, <1>12, ConcatProperties

\* What is written over what is there.
LEMMA OverType ==
  ASSUME NEW d \in Text, NEW t \in Text
  PROVE  Over(d, t) \in Text
  <1>1. CASE t = NoText
    BY <1>1 DEF Over
  <1>2. CASE t # NoText
    <2>1. PICK m \in Nat \ {0} : m = Len(d) + 1
      BY LenProperties DEF Text
    <2>2. PICK w : w = SubSeq(t, m, Len(t))
      OBVIOUS
    <2>3. Len(t) \in Nat /\ w \in Text
      BY <2>2, Cut, LenProperties DEF Text
    <2>4. Over(d, t) = d \o w
      BY <1>2, <2>1, <2>2 DEF Over
    <2> QED BY <2>3, <2>4, ConcatProperties DEF Text
  <1> QED BY <1>1, <1>2

-----------------------------------------------------------------------------
(* Types of the state.                                                      *)

Stubs == [tools : {l \in ToolLists : Valid(l)}, at : 0..MaxOps]

\* The line that insert names is there.
Asked(e) ==
  /\ e.text \in Text /\ e.new \in Text /\ e.after \in Nat
  /\ e.after <= Len(Lines(e.text))

DocTyped == doc \in [Path -> Text \cup {Absent}] /\ dir \in BOOLEAN
UndoTyped == history \in [Path -> Seq(Read)]
BusyTyped ==
  /\ busy.step \in {"idle", "open", "write"} /\ busy.path \in Path \cup {Absent}
  /\ busy.op \in FileOps => busy.data \in Text
  /\ busy.op = "register" => busy.data \in Stubs
  /\ busy.op = "insert" => Asked(busy.edit)
ReplyTyped ==
  /\ reply.how \in {"", "ok", "refused", "failed"} /\ reply.path \in Path \cup {Absent}
  /\ reply.op = "insert" /\ reply.how = "ok" => Asked(reply.edit)
StubTyped == /\ {stub, loaded, latest} \subseteq Stubs \cup {Absent, Torn}
             /\ fresh \in BOOLEAN
BoundTyped == ops \in 0..MaxOps /\ foreign \in 0..MaxForeign

TypeInv == DocTyped /\ UndoTyped /\ BusyTyped /\ ReplyTyped /\ StubTyped /\ BoundTyped

PathsTyped == locked \subseteq Path /\ spoiled \subseteq Path

\* They have the type invariant in them.
LEMMA TypeInvGives == TypeInv /\ PathsTyped => TypeOK
  BY DEF PathsTyped, TypeInv, TypeOK, DocTyped, UndoTyped, BusyTyped, ReplyTyped, StubTyped, BoundTyped,
         Text, Read, Stubs

\* Before the first request.
LEMMA TypeInit == Init => TypeInv
  <1> SUFFICES ASSUME Init PROVE TypeInv
    OBVIOUS
  <1>1. DocTyped /\ UndoTyped
    <2>1. <<>> \in Seq(Read)
      OBVIOUS
    <2>2. DocTyped
      BY DEF Init, DocTyped
    <2>3. UndoTyped
      BY <2>1 DEF Init, UndoTyped
    <2> QED BY <2>2, <2>3
  <1>2. BusyTyped /\ ReplyTyped
    BY DEF Init, Idle, NoReply, BusyTyped, ReplyTyped, FileOps
  <1>3. StubTyped /\ BoundTyped
    BY FilesBounds DEF Init, StubTyped, BoundTyped
  <1> QED BY <1>1, <1>2, <1>3 DEF TypeInv

\* After a request there is nothing to write.
LEMMA IdleTyped == busy' = Idle => BusyTyped'
  <1>1. Idle.step = "idle" /\ Idle.op = "" /\ Idle.path = Absent
    BY DEF Idle
  <1> QED BY <1>1 DEF BusyTyped, FileOps

\* A request is refused.
LEMMA RefuseTypes ==
  ASSUME TypeInv, NEW p \in Path, NEW op, Refuse(op, p)
  PROVE  DocTyped' /\ UndoTyped' /\ BusyTyped' /\ ReplyTyped'
  <1>1. reply'.how = "refused" /\ reply'.path = p
    BY DEF Refuse, NoReply
  <1> QED BY <1>1 DEF Refuse, TypeInv, DocTyped, UndoTyped, BusyTyped, ReplyTyped

\* A request gets under way.
LEMMA ProceedTypes ==
  ASSUME TypeInv, NEW p \in Path, NEW op \in FileOps \ {"insert"}, NEW d \in Text,
         Proceed(op, p, d)
  PROVE  BusyTyped' /\ ReplyTyped' /\ doc' = doc
  <1>0. ReplyTyped'
    BY DEF Proceed, NoReply, ReplyTyped
  <1>1. busy'.step = "open" /\ busy'.op = op /\ busy'.path = p /\ busy'.data = d
    BY DEF Proceed, Idle
  <1>2. op \in FileOps /\ op # "register" /\ op # "insert"
    BY DEF FileOps
  <1> QED BY <1>0, <1>1, <1>2 DEF Proceed, TypeInv, BusyTyped

\* What was read goes on the undo stack.
LEMMA PushTypes ==
  ASSUME TypeInv, NEW p \in Path, NEW t \in Read, NEW e, Push(p, t, e)
  PROVE  UndoTyped'
  <1>1. history[p] \in Seq(Read)
    BY DEF TypeInv, UndoTyped
  <1>2. PICK s : s = Append(history[p], t)
    OBVIOUS
  <1>3. s \in Seq(Read)
    BY <1>1, <1>2, AppendProperties
  <1>4. history' = [history EXCEPT ![p] = s]
    BY <1>2 DEF Push
  <1> QED BY <1>3, <1>4 DEF TypeInv, UndoTyped

\* Requests are bounded.
LEMMA OpsCounted ==
  ASSUME TypeInv, Request
  PROVE  ops' \in 0..MaxOps
  BY FilesBounds DEF Request, TypeInv, BoundTyped

\* Files are created and uploaded with texts.
LEMMA CreateTypes ==
  ASSUME TypeInv, NEW p \in Path, NEW t \in Texts, Create(p, t) \/ Upload(p, t)
  PROVE  TypeInv'
  <1>1. t \in Text
    BY TextsTyped
  <1>2. StubTyped' /\ BoundTyped'
    BY OpsCounted DEF Create, Upload, stubs, TypeInv, StubTyped, BoundTyped
  <1>3. ASSUME NEW op \in {"create", "upload"}, dir' = TRUE, Proceed(op, p, t), UNCHANGED history
        PROVE  TypeInv'
    <2>1. op \in FileOps \ {"insert"}
      BY DEF FileOps
    <2>2. BusyTyped' /\ ReplyTyped' /\ doc' = doc
      BY <1>1, <1>3, <2>1, ProceedTypes
    <2>3. DocTyped' /\ UndoTyped'
      BY <1>3, <2>2 DEF TypeInv, DocTyped, UndoTyped
    <2> QED BY <1>2, <2>2, <2>3 DEF TypeInv
  <1>4. CASE Refuse("create", p)
    <2>1. DocTyped' /\ UndoTyped' /\ BusyTyped' /\ ReplyTyped'
      BY <1>4, RefuseTypes
    <2> QED BY <1>2, <2>1 DEF TypeInv
  <1> QED BY <1>3, <1>4 DEF Create, Upload

\* A replacement makes a text of a text.
LEMMA StrReplaceTypes ==
  ASSUME TypeInv, NEW p \in Path, NEW old \in Olds, NEW new \in News, StrReplace(p, old, new)
  PROVE  TypeInv'
  <1>1. StubTyped' /\ BoundTyped'
    BY OpsCounted DEF StrReplace, stubs, TypeInv, StubTyped, BoundTyped
  <1>2. CASE Refuse("str_replace", p)
    <2>1. DocTyped' /\ UndoTyped' /\ BusyTyped' /\ ReplyTyped'
      BY <1>2, RefuseTypes
    <2> QED BY <1>1, <2>1 DEF TypeInv
  <1>3. CASE ~Refuse("str_replace", p)
    <2>1. PICK text : text = ReadText(doc[p])
      OBVIOUS
    <2>2. PICK edited : edited = Replace(text, old, new)
      OBVIOUS
    <2>3. /\ doc[p] # Absent /\ CountsOne(text, old) /\ dir' = dir
          /\ Push(p, text, edited) /\ Proceed("str_replace", p, edited)
      BY <1>3, <2>1, <2>2 DEF StrReplace
    <2>4. text \in Read
      <3>1. doc[p] \in Text
        BY <2>3 DEF TypeInv, DocTyped
      <3> QED BY <2>1, <3>1, ReadType
    <2>5. edited \in Text
      <3>1. text \in Text /\ new \in Text /\ old \in Text
        BY <2>4, ReadIsText, TextsTyped
      <3>2. Len(old) \in Nat
        BY <3>1, LenProperties DEF Text
      <3> QED BY <2>2, <2>3, <3>1, <3>2, ReplaceType DEF Text
    <2>6. BusyTyped' /\ ReplyTyped' /\ doc' = doc
      BY <2>3, <2>5, ProceedTypes DEF FileOps
    <2>7. UndoTyped'
      BY <2>3, <2>4, PushTypes
    <2>8. DocTyped'
      BY <2>3, <2>6 DEF TypeInv, DocTyped
    <2> QED BY <1>1, <2>6, <2>7, <2>8 DEF TypeInv
  <1> QED BY <1>2, <1>3

\* So does an insertion, and the line it names is there.
LEMMA InsertLineTypes ==
  ASSUME TypeInv, NEW p \in Path, NEW new \in News, NEW k \in LineNos, InsertLine(p, k, new)
  PROVE  TypeInv'
  <1>1. StubTyped' /\ BoundTyped'
    BY OpsCounted DEF InsertLine, stubs, TypeInv, StubTyped, BoundTyped
  <1>2. CASE Refuse("insert", p)
    <2>1. DocTyped' /\ UndoTyped' /\ BusyTyped' /\ ReplyTyped'
      BY <1>2, RefuseTypes
    <2> QED BY <1>1, <2>1 DEF TypeInv
  <1>3. CASE ~Refuse("insert", p)
    <2>1. PICK text : text = ReadText(doc[p])
      OBVIOUS
    <2>2. PICK edited : edited = Insert(text, k, new)
      OBVIOUS
    <2>3. PICK edit : edit = [text |-> text, after |-> k, new |-> new]
      OBVIOUS
    <2>4. /\ doc[p] # Absent /\ ~(k > Len(Lines(text))) /\ reply' = NoReply /\ UNCHANGED <<doc, dir>>
          /\ Push(p, text, edited)
          /\ busy' = [Idle EXCEPT !.step = "open", !.op = "insert", !.path = p,
                        !.data = edited, !.want = edited, !.edit = edit]
      BY <1>3, <2>1, <2>2, <2>3 DEF InsertLine
    <2>5. text \in Read
      <3>1. doc[p] \in Text
        BY <2>4 DEF TypeInv, DocTyped
      <3> QED BY <2>1, <3>1, ReadType
    <2>6. text \in Text /\ new \in Text
      BY <2>5, ReadIsText, TextsTyped
    <2>7. k \in Nat /\ k <= Len(Lines(text)) /\ Len(Lines(text)) \in Nat
      <3>1. Len(Lines(text)) \in Nat
        BY <2>6, LinesAre DEF Text
      <3> QED BY <2>4, <3>1, FilesBounds
    <2>8. edited \in Text
      <3>1. k \in 0..Len(Lines(text)) /\ "n" \in Chars
        BY <2>7 DEF Chars
      <3> QED BY <2>2, <2>6, <3>1, InsertLines DEF Text
    <2>9. BusyTyped'
      <3>1. /\ busy'.step = "open" /\ busy'.op = "insert" /\ busy'.path = p
            /\ busy'.data = edited /\ busy'.edit = edit
        BY <2>4 DEF Idle
      <3>2. Asked(edit)
        BY <2>3, <2>6, <2>7 DEF Asked
      <3> QED BY <2>8, <3>1, <3>2 DEF BusyTyped
    <2>10. UndoTyped'
      BY <2>4, <2>5, PushTypes
    <2>11. DocTyped' /\ ReplyTyped'
      BY <2>4 DEF TypeInv, DocTyped, ReplyTyped, NoReply
    <2> QED BY <1>1, <2>9, <2>10, <2>11 DEF TypeInv
  <1> QED BY <1>2, <1>3

\* What is undone was on the stack.
LEMMA UndoTypes ==
  ASSUME TypeInv, NEW p \in Path, Undo(p)
  PROVE  TypeInv'
  <1>1. StubTyped' /\ BoundTyped'
    BY OpsCounted DEF Undo, stubs, TypeInv, StubTyped, BoundTyped
  <1>2. CASE Refuse("undo_edit", p)
    <2>1. DocTyped' /\ UndoTyped' /\ BusyTyped' /\ ReplyTyped'
      BY <1>2, RefuseTypes
    <2> QED BY <1>1, <2>1 DEF TypeInv
  <1>3. CASE ~Refuse("undo_edit", p)
    <2>1. PICK h : h = history[p]
      OBVIOUS
    <2>2. PICK last : last = Last(h)
      OBVIOUS
    <2>3. PICK front : front = Front(h)
      OBVIOUS
    <2>4. h # <<>> /\ history' = [history EXCEPT ![p] = front]
          /\ reply' = NoReply /\ UNCHANGED <<doc, dir>>
      BY <1>3, <2>1, <2>3 DEF Undo
    <2>5. PICK want, raced :
            busy' = [Idle EXCEPT !.step = "open", !.op = "undo_edit", !.path = p,
                       !.data = last, !.want = want, !.raced = raced]
      BY <1>3, <2>1, <2>2 DEF Undo
    <2>6. h \in Seq(Read)
      BY <2>1 DEF TypeInv, UndoTyped
    <2>7. last \in Read
      <3>1. Len(h) \in Nat /\ Len(h) # 0
        BY <2>4, <2>6, LenProperties, EmptySeq
      <3>2. Len(h) \in 1..Len(h)
        BY <3>1
      <3>3. h[Len(h)] \in Read
        BY <2>6, <3>2, ElementOfSeq
      <3> QED BY <2>2, <3>3 DEF Last
    <2>8. front \in Seq(Read)
      <3>1. PICK n \in Nat : n = Len(h) - 1 /\ n <= Len(h)
        <4>1. Len(h) \in Nat /\ Len(h) # 0
          BY <2>4, <2>6, LenProperties, EmptySeq
        <4>2. Len(h) - 1 \in Nat /\ Len(h) - 1 <= Len(h)
          BY <4>1
        <4> QED BY <4>2
      <3>2. front = SubSeq(h, 1, n)
        BY <2>3, <3>1 DEF Front
      <3> QED BY <2>6, <3>1, <3>2, Cut
    <2>9. UndoTyped'
      BY <2>4, <2>8 DEF TypeInv, UndoTyped
    <2>10. BusyTyped'
      <3>1. /\ busy'.step = "open" /\ busy'.op = "undo_edit" /\ busy'.path = p
            /\ busy'.data = last
        BY <2>5 DEF Idle
      <3> QED BY <2>7, <3>1, ReadIsText DEF BusyTyped
    <2>11. DocTyped' /\ ReplyTyped'
      BY <2>4 DEF TypeInv, DocTyped, ReplyTyped, NoReply
    <2> QED BY <1>1, <2>9, <2>10, <2>11 DEF TypeInv
  <1> QED BY <1>2, <1>3

\* What is written is a text, whatever is there.
LEMMA WriteTypes ==
  ASSUME TypeInv, FileInv, Open \/ OpenFails \/ Write \/ WriteFails
  PROVE  TypeInv'
  <1>1. StubTyped' /\ BoundTyped' /\ UndoTyped'
    BY DEF Open, OpenFails, Write, WriteFails, stubs, TypeInv, StubTyped, BoundTyped, UndoTyped
  <1>2. busy.op \in FileOps /\ busy.path \in Path /\ AsBusy(busy)
    <2>1. busy.step \in {"open", "write"} /\ busy.op # "register"
      BY DEF Open, OpenFails, Write, WriteFails
    <2>2. Idle.step = "idle"
      BY DEF Idle
    <2> QED BY <2>1, <2>2 DEF FileInv, Stage, Shape
  <1>3. PICK d : d = busy.data
    OBVIOUS
  <1>4. d \in Text
    BY <1>2, <1>3 DEF TypeInv, BusyTyped
  <1>5. CASE Open
    <2>1. doc' = [doc EXCEPT ![busy.path] = NoText] /\ UNCHANGED <<dir, reply>>
          /\ busy' = [busy EXCEPT !.step = "write", !.linked = TRUE]
      BY <1>5 DEF Open, OpenFile
    <2>2. /\ busy'.step = "write" /\ busy'.op = busy.op /\ busy'.path = busy.path
          /\ busy'.data = busy.data /\ busy'.edit = busy.edit
      BY <1>2, <2>1 DEF AsBusy
    <2>3. BusyTyped'
      BY <2>2 DEF TypeInv, BusyTyped
    <2>4. DocTyped' /\ ReplyTyped'
      BY <1>2, <2>1, ReadIsText DEF TypeInv, DocTyped, ReplyTyped
    <2> QED BY <1>1, <2>3, <2>4 DEF TypeInv
  <1>6. CASE OpenFails
    <2>1. UNCHANGED <<doc, dir>> /\ busy' = Idle
          /\ reply'.how = "refused" /\ reply'.path = busy.path
      BY <1>6 DEF OpenFails, NoReply
    <2>2. DocTyped' /\ ReplyTyped'
      BY <1>2, <2>1 DEF TypeInv, DocTyped, ReplyTyped
    <2> QED BY <1>1, <2>1, <2>2, IdleTyped DEF TypeInv
  <1>7. CASE Write
    <2>1. PICK t : t = Over(d, doc[busy.path])
      OBVIOUS
    <2>2. /\ doc' = IF busy.linked THEN [doc EXCEPT ![busy.path] = t] ELSE doc
          /\ Answer("ok") /\ busy' = Idle /\ dir' = dir
      BY <1>3, <1>7, <2>1 DEF Write
    <2>3. busy.linked => t \in Text
      <3>1. busy.linked => doc[busy.path] # Absent
        BY <1>2 DEF FileInv, WriteInv
      <3>2. busy.linked => doc[busy.path] \in Text
        BY <1>2, <3>1 DEF TypeInv, DocTyped
      <3> QED BY <1>4, <2>1, <3>2, OverType
    <2>4. DocTyped'
      BY <1>2, <2>2, <2>3 DEF TypeInv, DocTyped
    <2>5. reply'.how = "ok" /\ reply'.path = busy.path /\ reply'.op = busy.op
          /\ reply'.edit = busy.edit
      BY <2>2 DEF Answer
    <2>6. ReplyTyped'
      BY <1>2, <2>5 DEF TypeInv, BusyTyped, ReplyTyped
    <2> QED BY <1>1, <2>2, <2>4, <2>6, IdleTyped DEF TypeInv
  <1>8. CASE WriteFails
    <2>1. UNCHANGED <<doc, dir>> /\ busy' = Idle
          /\ reply'.how = "failed" /\ reply'.path = busy.path
      BY <1>8 DEF WriteFails, Answer
    <2>2. DocTyped' /\ ReplyTyped'
      BY <1>2, <2>1 DEF TypeInv, DocTyped, ReplyTyped
    <2> QED BY <1>1, <2>1, <2>2, IdleTyped DEF TypeInv
  <1> QED BY <1>5, <1>6, <1>7, <1>8

\* What is written as a stub module is a registration that was valid.
LEMMA StubTypes ==
  ASSUME TypeInv, FileInv,
         \/ \E tools \in ToolLists : Register(tools)
         \/ OpenStub \/ OpenStubFails \/ WriteStub \/ WriteStubFails
  PROVE  TypeInv'
  <1>1. DocTyped' /\ UndoTyped' /\ ReplyTyped'
    BY DEF Register, OpenStub, OpenStubFails, WriteStub, WriteStubFails, TypeInv, DocTyped, UndoTyped, ReplyTyped
  <1>2. ASSUME NEW tools \in ToolLists, Register(tools)
        PROVE  TypeInv'
    <2>1. StubTyped' /\ BoundTyped'
      BY <1>2, OpsCounted DEF Register, RefuseStub, TypeInv, StubTyped, BoundTyped
    <2>2. CASE Valid(tools)
      <3>1. PICK d : d = [tools |-> tools, at |-> ops]
        OBVIOUS
      <3>2. d \in Stubs
        BY <2>2, <3>1 DEF Stubs, TypeInv, BoundTyped
      <3>3. busy' = [Idle EXCEPT !.step = "open", !.op = "register", !.data = d]
        BY <1>2, <2>2, <3>1 DEF Register
      <3>4. /\ busy'.step = "open" /\ busy'.op = "register" /\ busy'.path = Absent
            /\ busy'.data = d
        BY <3>3 DEF Idle
      <3>5. BusyTyped'
        BY <3>2, <3>4 DEF BusyTyped, FileOps
      <3> QED BY <1>1, <2>1, <3>5 DEF TypeInv
    <2>3. CASE ~Valid(tools)
      <3>1. busy' = busy
        BY <1>2, <2>3 DEF Register
      <3> QED BY <1>1, <2>1, <3>1 DEF TypeInv, BusyTyped
    <2> QED BY <2>2, <2>3
  <1>3. CASE OpenStub
    <2>1. busy' = [busy EXCEPT !.step = "write"] /\ AsBusy(busy)
      BY <1>3 DEF OpenStub, FileInv, Shape
    <2>2. /\ busy'.step = "write" /\ busy'.op = busy.op /\ busy'.path = busy.path
          /\ busy'.data = busy.data /\ busy'.edit = busy.edit
      BY <2>1 DEF AsBusy
    <2>3. BusyTyped'
      BY <2>2 DEF TypeInv, BusyTyped
    <2>4. StubTyped' /\ BoundTyped'
      BY <1>3 DEF OpenStub, TypeInv, StubTyped, BoundTyped
    <2> QED BY <1>1, <2>3, <2>4 DEF TypeInv
  <1>4. CASE WriteStub \/ WriteStubFails
    <2>1. busy' = Idle /\ busy.data \in Stubs
      BY <1>4 DEF WriteStub, WriteStubFails, TypeInv, BusyTyped
    <2>2. StubTyped' /\ BoundTyped'
      BY <1>4, <2>1 DEF WriteStub, WriteStubFails, TypeInv, StubTyped, BoundTyped
    <2> QED BY <1>1, <2>1, <2>2, IdleTyped DEF TypeInv
  <1>5. CASE OpenStubFails
    <2>1. StubTyped' /\ BoundTyped' /\ busy' = Idle
      BY <1>5 DEF OpenStubFails, stubs, TypeInv, StubTyped, BoundTyped
    <2> QED BY <1>1, <2>1, IdleTyped DEF TypeInv
  <1> QED BY <1>2, <1>3, <1>4, <1>5

\* The session's processes write texts too.
LEMMA ForeignTypes ==
  ASSUME TypeInv, FileInv, Processes
  PROVE  TypeInv'
  <1>1. CASE Import \/ Restart
    <2>1. StubTyped'
      BY <1>1 DEF Import, Restart, TypeInv, StubTyped
    <2> QED BY <1>1, <2>1 DEF Import, Restart, TypeInv, DocTyped, UndoTyped, BusyTyped,
                              ReplyTyped, BoundTyped
  <1>2. CASE ForeignRmdir \/ \E p \in Path : ForeignChmod(p)
    <2>1. BoundTyped'
      BY <1>2, FilesBounds DEF ForeignRmdir, ForeignChmod, TypeInv, BoundTyped
    <2>2. DocTyped' /\ UndoTyped' /\ StubTyped'
      BY <1>2 DEF ForeignRmdir, ForeignChmod, stubs, TypeInv, DocTyped, UndoTyped, StubTyped
    <2>3. BusyTyped' /\ ReplyTyped'
      BY <1>2 DEF ForeignRmdir, ForeignChmod, TypeInv, BusyTyped, ReplyTyped
    <2> QED BY <2>1, <2>2, <2>3 DEF TypeInv
  <1>3. ASSUME NEW p \in Path, NEW content \in Text \cup {Absent}, Meddle(p),
               doc' = [doc EXCEPT ![p] = content], dir' \in BOOLEAN,
               UNCHANGED <<history, stubs, ops>>,
               busy'.step = busy.step, busy'.op = busy.op, busy'.path = busy.path,
               busy'.data = busy.data, busy'.edit = busy.edit
        PROVE  TypeInv'
    <2>1. DocTyped' /\ UndoTyped' /\ StubTyped'
      BY <1>3 DEF TypeInv, DocTyped, UndoTyped, StubTyped, stubs
    <2>2. BoundTyped'
      BY <1>3, FilesBounds DEF Meddle, TypeInv, BoundTyped
    <2>3. BusyTyped'
      BY <1>3 DEF TypeInv, BusyTyped
    <2>4. ReplyTyped'
      <3>1. reply' = [reply EXCEPT !.raced = @ \/ reply.path = p] /\ AsReply(reply)
        BY <1>3 DEF Meddle, FileInv, Shape
      <3>2. reply'.how = reply.how /\ reply'.path = reply.path /\ reply'.op = reply.op
            /\ reply'.edit = reply.edit
        BY <3>1 DEF AsReply
      <3> QED BY <3>2 DEF TypeInv, ReplyTyped
    <2> QED BY <2>1, <2>2, <2>3, <2>4 DEF TypeInv
  <1>4. ASSUME NEW p \in Path, NEW t \in Texts, ForeignWrite(p, t)
        PROVE  TypeInv'
    <2>1. t \in Text \cup {Absent}
      BY TextsTyped
    <2>2. busy' = [busy EXCEPT !.raced = @ \/ busy.path = p] /\ AsBusy(busy)
      BY <1>4 DEF ForeignWrite, FileInv, Shape
    <2>3. /\ busy'.step = busy.step /\ busy'.op = busy.op /\ busy'.path = busy.path
          /\ busy'.data = busy.data /\ busy'.edit = busy.edit
      BY <2>2 DEF AsBusy
    <2>4. /\ Meddle(p) /\ doc' = [doc EXCEPT ![p] = t] /\ dir' \in BOOLEAN
          /\ UNCHANGED <<history, stubs, ops>>
      BY <1>4 DEF ForeignWrite
    <2> QED BY <1>3, <2>1, <2>3, <2>4
  <1>5. ASSUME NEW p \in Path, ForeignRemove(p)
        PROVE  TypeInv'
    <2>1. Absent \in Text \cup {Absent}
      OBVIOUS
    <2>2. /\ busy' = [busy EXCEPT !.raced = @ \/ busy.path = p,
                                  !.linked = @ /\ busy.path # p]
          /\ AsBusy(busy)
      BY <1>5 DEF ForeignRemove, FileInv, Shape
    <2>3. /\ busy'.step = busy.step /\ busy'.op = busy.op /\ busy'.path = busy.path
          /\ busy'.data = busy.data /\ busy'.edit = busy.edit
      BY <2>2 DEF AsBusy
    <2>4. /\ Meddle(p) /\ doc' = [doc EXCEPT ![p] = Absent] /\ dir' \in BOOLEAN
          /\ UNCHANGED <<history, stubs, ops>>
      BY <1>5 DEF ForeignRemove, TypeInv, DocTyped
    <2> QED BY <1>3, <2>1, <2>3, <2>4
  <1> QED BY <1>1, <1>2, <1>4, <1>5, Zenon DEF Processes

\* Every step keeps the types.
LEMMA TypeStep == TypeInv /\ FileInv /\ [Next]_vars => TypeInv'
  <1> SUFFICES ASSUME TypeInv, FileInv, [Next]_vars PROVE TypeInv'
    OBVIOUS
  <1>1. CASE Handler
    BY <1>1, CreateTypes, StrReplaceTypes, InsertLineTypes, UndoTypes, WriteTypes, StubTypes,
       Zenon DEF Handler
  <1>2. CASE Processes
    BY <1>2, ForeignTypes
  <1>3. CASE UNCHANGED vars
    BY <1>3 DEF vars, stubs, TypeInv, DocTyped, UndoTyped, BusyTyped, ReplyTyped, StubTyped,
                BoundTyped
  <1> QED BY <1>1, <1>2, <1>3 DEF Next

\* Only files of the workspace are locked or spoiled.
LEMMA PathsStep == PathsTyped /\ FileInv /\ [Next]_vars => PathsTyped'
  <1> SUFFICES ASSUME PathsTyped, FileInv, [Next]_vars PROVE PathsTyped'
    OBVIOUS
  <1>1. CASE OpenFails
    <2>1. busy.path \in Path
      BY <1>1, WritesFile DEF OpenFails
    <2> QED BY <1>1, <2>1 DEF OpenFails, PathsTyped
  <1>2. ASSUME NEW p \in Path, ForeignRemove(p) \/ ForeignChmod(p)
        PROVE  PathsTyped'
    BY <1>2 DEF ForeignRemove, ForeignChmod, PathsTyped
  <1>3. ASSUME UNCHANGED <<locked, spoiled>>
        PROVE  PathsTyped'
    BY <1>3 DEF PathsTyped
  <1>4. CASE Handler
    <2>1. ASSUME NEW p \in Path, NEW t \in Texts, Create(p, t) \/ Upload(p, t)
          PROVE  UNCHANGED <<locked, spoiled>>
      BY <2>1 DEF Create, Upload
    <2>2. ASSUME NEW p \in Path, NEW old \in Olds, NEW new \in News, StrReplace(p, old, new)
          PROVE  UNCHANGED <<locked, spoiled>>
      BY <2>2 DEF StrReplace
    <2>3. ASSUME NEW p \in Path, NEW new \in News, NEW k \in LineNos, InsertLine(p, k, new)
          PROVE  UNCHANGED <<locked, spoiled>>
      BY <2>3 DEF InsertLine
    <2>4. ASSUME NEW p \in Path, Undo(p)
          PROVE  UNCHANGED <<locked, spoiled>>
      BY <2>4 DEF Undo
    <2>5. ASSUME NEW tools \in ToolLists, Register(tools)
          PROVE  UNCHANGED <<locked, spoiled>>
      BY <2>5 DEF Register
    <2>6. CASE Open \/ Write \/ WriteFails \/ OpenStub \/ OpenStubFails \/ WriteStub
               \/ WriteStubFails
      BY <1>3, <2>6 DEF Open, Write, WriteFails, OpenStub, OpenStubFails, WriteStub,
                        WriteStubFails
    <2> QED BY <1>1, <1>3, <1>4, <2>1, <2>2, <2>3, <2>4, <2>5, <2>6, Zenon DEF Handler
  <1>5. CASE Processes
    <2>1. ASSUME NEW p \in Path, NEW t \in Texts, ForeignWrite(p, t)
          PROVE  UNCHANGED <<locked, spoiled>>
      BY <2>1 DEF ForeignWrite
    <2>2. CASE ForeignRmdir
      BY <2>2 DEF ForeignRmdir, PathsTyped
    <2>3. CASE Import \/ Restart
      BY <1>3, <2>3 DEF Import, Restart
    <2> QED BY <1>2, <1>3, <1>5, <2>1, <2>2, <2>3, Zenon DEF Processes
  <1> QED BY <1>3, <1>4, <1>5 DEF Next, vars

-----------------------------------------------------------------------------
\* They always hold.
LEMMA TypesAlways == Spec => [](FilesInv /\ TypeInv /\ PathsTyped)
  <1>1. Init => TypeInv /\ PathsTyped
    BY TypeInit DEF Init, PathsTyped
  <1>2. FilesInv /\ TypeInv /\ [Next]_vars => TypeInv'
    BY TypeStep DEF FilesInv, FileInv
  <1>3. FilesInv /\ PathsTyped /\ [Next]_vars => PathsTyped'
    BY PathsStep DEF FilesInv, FileInv
  <1> QED BY <1>1, <1>2, <1>3, FilesAlways, PTL DEF Spec

\* Whatever texts are created, uploaded, edited and meddled with, files hold texts, the
\* undo stack holds what read_text returns, and the stub module is one that was
\* accepted, one cut off or none (text_editor.py, files.py, platform_tools.py).
THEOREM TypeCorrect == Spec => []TypeOK
  <1> QED BY TypesAlways, TypeInvGives, PTL

\* An insert that succeeded and that nobody disturbed has left the lines of the file
\* with those of new_str after the line named, for any text and any line, except that
\* behind a last line without a newline new_str continues that line
\* (text_editor.py:129-151).
THEOREM InsertsBehindTheLine == Spec => []InsertedAfterLine
  <1>1. FilesInv /\ TypeInv => InsertedAfterLine
    <2> SUFFICES ASSUME FilesInv, TypeInv, busy = Idle, reply.op = "insert",
                        reply.how = "ok", ~reply.raced
                 PROVE  LET text == reply.edit.text
                            k == reply.edit.after
                            new == Payload(reply.edit.new)
                            old == Lines(text)
                        IN  \/ Lines(doc[reply.path]) =
                                  SubSeq(old, 1, k) \o Lines(new) \o SubSeq(old, k + 1, Len(old))
                            \/ k = Len(old) /\ text # NoText /\ ~Finished(text)
                               /\ doc[reply.path] = text \o new
      BY DEF InsertedAfterLine
    <2>1. doc[reply.path] = Insert(reply.edit.text, reply.edit.after, reply.edit.new)
      BY AtRest DEF FilesInv, FileInv, ReplyInv, Inserts
    <2>2. PICK t : t = reply.edit.text
      OBVIOUS
    <2>3. PICK k : k = reply.edit.after
      OBVIOUS
    <2>4. PICK x : x = reply.edit.new
      OBVIOUS
    <2>5. t \in Text /\ x \in Text /\ k \in Nat /\ k <= Len(Lines(t))
      BY <2>2, <2>3, <2>4 DEF TypeInv, ReplyTyped, Asked
    <2>6. k \in 0..Len(Lines(t))
      <3>1. Len(Lines(t)) \in Nat
        BY <2>5, LinesAre DEF Text
      <3> QED BY <2>5, <3>1
    <2>7. "n" \in Chars
      BY DEF Chars
    <2>8. \/ Lines(Insert(t, k, x)) = SubSeq(Lines(t), 1, k) \o Lines(Payload(x))
                                        \o SubSeq(Lines(t), k + 1, Len(Lines(t)))
          \/ /\ k = Len(Lines(t)) /\ t # NoText /\ ~Finished(t)
             /\ Insert(t, k, x) = t \o Payload(x)
      BY <2>5, <2>6, <2>7, InsertLines DEF Text
    <2> QED BY <2>1, <2>2, <2>3, <2>4, <2>8, Zenon
  <1> QED BY <1>1, TypesAlways, PTL
=============================================================================
