---------------------------- MODULE FileNatives ----------------------------
(***************************************************************************)
(* The file functions scripts call, native/node_native_fs.hxx, with the    *)
(* string casters that carry their arguments and results.                  *)
(*                                                                         *)
(* The program makes one call at a time; between any two system calls of   *)
(* it other programs may change the files.  No function looks at an error: *)
(* a FILE that was not opened is used, a short read is not noticed, and a  *)
(* directory that was listed is never closed.                              *)
(*                                                                         *)
(* existsSync, statSync, lstatSync and realpathSync change nothing here;   *)
(* module ModuleLoader is about what they answer.                          *)
(***************************************************************************)
EXTENDS Integers, Sequences, FiniteSets

CONSTANTS
  Paths,       \* the names in the working directory
  Here,        \* the working directory
  Dots,        \* the entries . and .. of every directory
  Shape,       \* the first three characters of each entry's name
  Bytes, Nul,
  Wide,        \* characters that are no byte
  Low,         \* the low byte of each character
  Texts,       \* what scripts write, sequences of characters (bounds the model)
  OtherTexts,  \* what other programs write, sequences of bytes (bounds the model)
  MaxOpen,     \* descriptors the process may have open
  Junk,        \* a byte of memory that nobody wrote
  Null

Chars == Bytes \cup Wide

\* Three characters of a name as readdirSync tells them apart; "end" follows
\* the last one.
Shapes ==
  {h \in [1..3 -> {"dot", "other", "end"}] : h[1] # "end" /\ (h[2] = "end" => h[3] = "end")}

ASSUME FileAssumption ==
  /\ Paths \cap Dots = {} /\ Here \notin Paths /\ Null \notin Paths \cup {Here}
  /\ Shape \in [Paths \cup Dots -> Shapes]
  /\ \A e \in Paths \cup Dots :
       e \in Dots <=> Shape[e] \in {<<"dot", "end", "end">>, <<"dot", "dot", "end">>}
  /\ Nul \in Bytes /\ Bytes \cap Wide = {} /\ Junk \notin Bytes
  /\ Low \in [Chars -> Bytes] /\ \A b \in Bytes : Low[b] = b
  /\ Texts \subseteq Seq(Chars) /\ OtherTexts \subseteq Seq(Bytes) /\ Null \notin Texts
  /\ MaxOpen \in Nat

VARIABLES
  kind,      \* what each path leads to; "locked" is a file fopen refuses
  data,      \* the bytes of each file, none elsewhere
  author,    \* the text a script wrote there last, if nobody touched it since
  open,      \* descriptors in use
  listings,  \* directories listed so far
  call,      \* the native call in progress
  got,       \* what the last call returned to the script
  disturbed, \* another program wrote to the file of this call
  shrunk,    \* and left it shorter than the call had measured it
  fault      \* why the program ended

files == <<kind, data, author>>
vars  == <<kind, data, author, open, listings, call, got, disturbed, shrunk, fault>>

Kinds == {"none", "file", "locked", "dir"}

\* path is the name the call was given; linked says that it still leads to the
\* file the call has open, rest is that file after it lost its name.  A read
\* has measured size and fetched buf, a write has delivered pos bytes of text,
\* a listing was given the entries asked; steady are those never removed.
Call == [op : {"idle", "opened", "reading", "writing", "listing"},
         path : Paths \cup {Here, Null}, linked : BOOLEAN, rest : Seq(Bytes),
         size : Nat, buf : Seq(Bytes), text : Seq(Chars), pos : Nat,
         asked : SUBSET (Paths \cup Dots), steady : SUBSET (Paths \cup Dots)]

Idle == [op |-> "idle", path |-> Null, linked |-> FALSE, rest |-> <<>>,
         size |-> 0, buf |-> <<>>, text |-> <<>>, pos |-> 0, asked |-> {}, steady |-> {}]

Begin(op, p) == [Idle EXCEPT !.op = op, !.path = p, !.linked = TRUE]

\* What a call returns: a text, or the names in a directory.
Answer(s, names) == [text |-> s, names |-> names]
Nothing == Answer(<<>>, {})

Ready == fault = "none" /\ call.op = "idle"

\* The file a call has open.
Content == IF call.linked THEN data[call.path] ELSE call.rest

-----------------------------------------------------------------------------
(* Strings.                                                                *)

\* The part of a string before its first NUL: std::string(const char *).
CutAtNul(s) ==
  LET nuls == {i \in 1..Len(s) : s[i] = Nul}
  IN  IF nuls = {} THEN s
      ELSE SubSeq(s, 1, (CHOOSE i \in nuls : \A j \in nuls : i <= j) - 1)

\* JS_EncodeString keeps the low byte of every character.
\* (Mutant: it keeps all of them.)
BackWhole(t) == CutAtNul(t)
Back(t) == CutAtNul([i \in 1..Len(t) |-> Low[t[i]]])

\* JS_NewStringCopyZ makes a character of every byte up to the first NUL.
ToJs(s) == CutAtNul(s)

-----------------------------------------------------------------------------
(* readFileSync.                                                           *)

Fails(reason) ==
  /\ fault' = reason
  /\ UNCHANGED <<kind, data, author, open, listings, call, got, disturbed, shrunk>>

Opens(c) ==
  /\ open < MaxOpen /\ open' = open + 1
  /\ call' = c /\ got' = Nothing /\ disturbed' = FALSE /\ shrunk' = FALSE
  /\ UNCHANGED <<listings, fault>>

Returns(a) ==
  /\ got' = a
  /\ UNCHANGED <<kind, data, author, open, listings, call, disturbed, shrunk, fault>>

\* fopen; a FILE that is null is used all the same.  A directory can be opened,
\* and its size is nothing or more than there is memory.
ReadFile(p) ==
  /\ Ready
  /\ \/ kind[p] = "file" /\ Opens(Begin("opened", p)) /\ UNCHANGED files
     \/ kind[p] = "dir" /\ open < MaxOpen /\ (Fails("memory") \/ Returns(Nothing))
     \/ (kind[p] \in {"none", "locked"} \/ open = MaxOpen) /\ Fails("null")

\* fseek and ftell.
\* (Mutant: the terminator is counted.)
MeasureOneMore ==
  /\ call.op = "opened"
  /\ call' = [call EXCEPT !.op = "reading", !.size = Len(Content) + 1]
  /\ UNCHANGED <<kind, data, author, open, listings, got, disturbed, shrunk, fault>>
Measure ==
  /\ call.op = "opened"
  /\ call' = [call EXCEPT !.op = "reading", !.size = Len(Content)]
  /\ UNCHANGED <<kind, data, author, open, listings, got, disturbed, shrunk, fault>>

\* fread, by as many system calls as it takes.
Fetch(k) ==
  /\ call.op = "reading"
  /\ Len(call.buf) + k <= call.size /\ Len(call.buf) + k <= Len(Content)
  /\ call' = [call EXCEPT !.buf = @ \o SubSeq(Content, Len(@) + 1, Len(@) + k)]
  /\ UNCHANGED <<kind, data, author, open, listings, got, disturbed, shrunk, fault>>

\* (Mutant: one system call was enough.)
EndOfFileAtOnce == call.size = 0 \/ call.buf # <<>> \/ Content = <<>>
EndOfFile == Len(call.buf) = call.size \/ Len(Content) <= Len(call.buf)

\* What new[] left in the part of the buffer that was not filled, up to a NUL.
Unfilled == {[i \in 1..n |-> Junk] : n \in 0..(call.size - Len(call.buf))}

\* fclose.
\* (Mutants: the FILE stays open; a short read is tried again.)
CloseNot == open' = open
Close == open' = open - 1

FinishReadWhenFull ==
  /\ call.op = "reading" /\ Len(call.buf) = call.size
  /\ Close /\ call' = Idle
  /\ \E t \in Unfilled : got' = Answer(ToJs(call.buf \o t), {})
  /\ UNCHANGED <<kind, data, author, listings, disturbed, shrunk, fault>>
FinishRead ==
  /\ call.op = "reading" /\ EndOfFile
  /\ Close /\ call' = Idle
  /\ \E t \in Unfilled : got' = Answer(ToJs(call.buf \o t), {})
  /\ UNCHANGED <<kind, data, author, listings, disturbed, shrunk, fault>>

-----------------------------------------------------------------------------
(* writeFileSync.                                                          *)

Filled(p, s, t) ==
  /\ kind' = [kind EXCEPT ![p] = "file"]
  /\ data' = [data EXCEPT ![p] = s]
  /\ author' = [author EXCEPT ![p] = t]

\* fopen for writing empties the file, or creates it.
WriteFile(p, t) ==
  /\ Ready
  /\ \/ kind[p] \in {"none", "file"}
        /\ Opens([Begin("writing", p) EXCEPT !.text = t]) /\ Filled(p, <<>>, Null)
     \/ (kind[p] \in {"dir", "locked"} \/ open = MaxOpen) /\ Fails("null")

\* The bytes of s after more were written at offset pos: a hole is zeroes.
\* (Mutant: the offset does not move.)
OverlayAtStart(s, pos, more) == more \o SubSeq(s, Len(more) + 1, Len(s))
Overlay(s, pos, more) ==
  [i \in 1..(IF pos + Len(more) > Len(s) THEN pos + Len(more) ELSE Len(s)) |->
     IF i \in (pos + 1)..(pos + Len(more)) THEN more[i - pos]
     ELSE IF i <= Len(s) THEN s[i] ELSE Nul]

\* fwrite and the flush of fclose, by as many system calls as it takes.
Deliver(k) ==
  LET more == SubSeq(Back(call.text), call.pos + 1, call.pos + k)
      new  == Overlay(Content, call.pos, more)
  IN
  /\ call.op = "writing" /\ call.pos + k <= Len(Back(call.text))
  /\ IF call.linked
     THEN /\ data' = [data EXCEPT ![call.path] = new]
          /\ call' = [call EXCEPT !.pos = @ + k]
     ELSE /\ call' = [call EXCEPT !.pos = @ + k, !.rest = new]
          /\ UNCHANGED data
  /\ UNCHANGED <<kind, author, open, listings, got, disturbed, shrunk, fault>>

Delivered == call.pos = Len(Back(call.text))

\* fclose.  If the disk is full the rest is dropped without a word.
FinishWrite ==
  /\ call.op = "writing" /\ Close /\ call' = Idle
  /\ \/ Delivered /\ call.linked /\ ~disturbed
        /\ author' = [author EXCEPT ![call.path] = call.text]
     \/ ~(Delivered /\ call.linked /\ ~disturbed) /\ UNCHANGED author
  /\ UNCHANGED <<kind, data, listings, got, disturbed, shrunk, fault>>

-----------------------------------------------------------------------------
(* Directories.                                                            *)

\* mkdirSync and unlinkSync; that they fail is not seen.
MkDir(p) ==
  /\ Ready /\ kind[p] = "none"
  /\ kind' = [kind EXCEPT ![p] = "dir"]
  /\ UNCHANGED <<data, author, open, listings, call, got, disturbed, shrunk, fault>>

Unlink(p) ==
  /\ Ready /\ kind[p] \in {"file", "locked"}
  /\ kind' = [kind EXCEPT ![p] = "none"]
  /\ data' = [data EXCEPT ![p] = <<>>]
  /\ author' = [author EXCEPT ![p] = Null]
  /\ UNCHANGED <<open, listings, call, got, disturbed, shrunk, fault>>

Entries(d) == Dots \cup IF d = Here THEN {p \in Paths : kind[p] # "none"} ELSE {}

Directories == {Here} \cup {p \in Paths : kind[p] = "dir"}

\* readdirSync.  It returns false if opendir fails: the script just stops.
ReadDir(d) ==
  /\ Ready
  /\ \/ d \in Directories
        /\ open < MaxOpen /\ open' = open + 1 /\ listings' = listings + 1
        /\ call' = [Idle EXCEPT !.op = "listing", !.path = d, !.steady = Entries(d)]
        /\ got' = Nothing
        /\ UNCHANGED <<kind, data, author, disturbed, shrunk, fault>>
     \/ (d \notin Directories \/ open = MaxOpen) /\ Fails("stopped")

\* readdir.
NextEntry(e) ==
  /\ call.op = "listing" /\ e \in Entries(call.path) \ call.asked
  /\ call' = [call EXCEPT !.asked = @ \cup {e}]
  /\ UNCHANGED <<kind, data, author, open, listings, got, disturbed, shrunk, fault>>

\* The entries the nested switch skips.  Any other name that begins with dots
\* falls through to the append.
\* (Mutant: the innermost switch is left out, and with it every name that
\* begins with two dots.)
SkippedAtTwoDots ==
  {e \in Paths \cup Dots : Shape[e][1] = "dot" /\ Shape[e][2] \in {"end", "dot"}}
Skipped ==
  {e \in Paths \cup Dots :
     Shape[e][1] = "dot" /\ (Shape[e][2] = "end" \/ (Shape[e][2] = "dot" /\ Shape[e][3] = "end"))}

\* There is no closedir.
FinishReadDir ==
  /\ call.op = "listing" /\ call.steady \subseteq call.asked
  /\ call' = Idle /\ got' = Answer(<<>>, call.asked \ Skipped)
  /\ UNCHANGED <<kind, data, author, open, listings, disturbed, shrunk, fault>>

\* process.exit.
Exit ==
  /\ Ready /\ Fails("exit")

-----------------------------------------------------------------------------
(* Other programs, at any time.                                            *)

IsOpen(p) == call.linked /\ call.path = p

\* The file is opened, emptied or extended, and written in place.
Rewrite(p, s) ==
  /\ fault = "none" /\ kind[p] \in {"file", "locked"}
  /\ data' = [data EXCEPT ![p] = s] /\ author' = [author EXCEPT ![p] = Null]
  /\ disturbed' = (disturbed \/ IsOpen(p))
  /\ shrunk' = (shrunk \/ (IsOpen(p) /\ call.op = "reading" /\ Len(s) < call.size))
  /\ UNCHANGED <<kind, open, listings, call, got, fault>>

\* The name is removed, or given to something else.  Who has the old file open
\* keeps it.
Relink(p, k, s) ==
  /\ fault = "none"
  /\ k \in {"none", "dir"} => kind[p] # k /\ s = <<>>
  /\ kind' = [kind EXCEPT ![p] = k] /\ data' = [data EXCEPT ![p] = s]
  /\ author' = [author EXCEPT ![p] = Null]
  /\ call' = [call EXCEPT !.linked = @ /\ call.path # p,
                          !.rest = IF IsOpen(p) THEN data[p] ELSE @,
                          !.steady = IF k = "none" THEN @ \ {p} ELSE @]
  /\ UNCHANGED <<open, listings, got, disturbed, shrunk, fault>>

Init ==
  /\ kind = [p \in Paths |-> "none"]
  /\ data = [p \in Paths |-> <<>>]
  /\ author = [p \in Paths |-> Null]
  /\ open = 0 /\ listings = 0
  /\ call = Idle /\ got = Nothing
  /\ disturbed = FALSE /\ shrunk = FALSE
  /\ fault = "none"

Script ==
  \/ \E p \in Paths : ReadFile(p) \/ MkDir(p) \/ Unlink(p) \/ \E t \in Texts : WriteFile(p, t)
  \/ \E d \in Paths \cup {Here} : ReadDir(d)
  \/ Exit

Native ==
  \/ Measure \/ FinishRead \/ FinishWrite \/ FinishReadDir
  \/ \E k \in 1..call.size : Fetch(k)
  \/ \E k \in 1..Len(Back(call.text)) : Deliver(k)
  \/ \E e \in Entries(call.path) : NextEntry(e)

Others ==
  \E p \in Paths, s \in OtherTexts :
    Rewrite(p, s) \/ \E k \in Kinds : Relink(p, k, s)

Next == Script \/ Native \/ Others

Spec == Init /\ [][Next]_vars

\* A native that was called goes on: system calls on files return.
FairSpec == Spec /\ WF_vars(Native)

-----------------------------------------------------------------------------
(* Properties.                                                             *)

TypeOK ==
  /\ kind \in [Paths -> Kinds]
  /\ data \in [Paths -> Seq(Bytes)]
  /\ author \in [Paths -> Texts \cup {Null}]
  /\ open \in Nat /\ listings \in Nat
  /\ call \in Call
  /\ got \in [text : Seq(Bytes \cup {Junk}), names : SUBSET Paths]
  /\ disturbed \in BOOLEAN /\ shrunk \in BOOLEAN
  /\ fault \in {"none", "null", "memory", "stopped", "exit"}

ReturnsText == call.op = "reading" /\ call'.op = "idle"

\* A read during which nobody else writes to the file returns its bytes up to
\* the first NUL, however many system calls it takes and whatever happens to
\* the file's name.
ReadsAreExact ==
  [][ReturnsText /\ ~disturbed => got'.text = CutAtNul(Content)]_vars

\* Whatever other programs do to the file, a read returns memory that nobody
\* wrote only if the file became shorter than it was when it was measured.
NothingUnwritten ==
  [][ReturnsText /\ ~shrunk => \A i \in 1..Len(got'.text) : got'.text[i] # Junk]_vars

\* A text that scripts can write without loss.
Portable(t) == \A i \in 1..Len(t) : t[i] \in Bytes \ {Nul}

\* What a script wrote, it reads: from a file nobody has touched since, a text
\* without NUL and wide characters comes back as it was.
WrittenTextReadsBack ==
  [][ReturnsText /\ ~disturbed /\ call.linked /\ author[call.path] # Null
       /\ Portable(author[call.path])
     => got'.text = author[call.path]]_vars

\* The process loses one descriptor with each directory it lists, and no other
\* way: only so can fopen come to fail for files that are there.
OnlyListingsLeak ==
  open = listings + (IF call.op \in {"opened", "reading", "writing"} THEN 1 ELSE 0)

\* A file a script wrote is in every listing that follows, whatever other
\* programs create or remove next to it, until one of them touches that file.
WrittenFilesAreListed ==
  [][call.op = "listing" /\ call'.op = "idle" /\ call.path = Here
     => {p \in Paths : author[p] # Null} \subseteq got'.names]_vars

\* No call goes on forever, even if other programs keep writing to its file:
\* how much a read reads is settled before it begins.
CallsReturn == call.op # "idle" ~> call.op = "idle"

-----------------------------------------------------------------------------
(* The inductive invariant of the proofs.                                  *)

CallHolds ==
  /\ call.linked => call.path \in Paths /\ call.op \in {"opened", "reading", "writing"}
  /\ call.op = "opened" => call.buf = <<>>

\* What a read fetched is what is there, and no more than it measured.
ReadingHolds ==
  call.op = "reading" =>
    /\ Len(call.buf) <= call.size
    /\ ~shrunk => call.size <= Len(Content)
    /\ ~disturbed => /\ call.size = Len(Content)
                     /\ \A i \in 1..Len(call.buf) : call.buf[i] = Content[i]

\* What a write delivered is what is there, and nobody wrote it yet.
WritingHolds ==
  call.op = "writing" =>
    /\ call.text \in Texts /\ call.pos <= Len(Back(call.text))
    /\ call.linked => kind[call.path] = "file" /\ author[call.path] = Null
    /\ call.linked /\ ~disturbed =>
         /\ Len(data[call.path]) = call.pos
         /\ \A i \in 1..call.pos : data[call.path][i] = Back(call.text)[i]

AuthorHolds ==
  \A p \in Paths : author[p] # Null => kind[p] = "file" /\ data[p] = Back(author[p])

ListingHolds ==
  call.op = "listing" /\ call.path = Here =>
    \A p \in Paths : author[p] # Null => p \in call.steady

IInv == TypeOK /\ OnlyListingsLeak /\ CallHolds /\ ReadingHolds /\ WritingHolds
        /\ AuthorHolds /\ ListingHolds
=============================================================================
