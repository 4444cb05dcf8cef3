------------------------- MODULE SharedHistoryProofs -------------------------
(***************************************************************************)
(* Proofs about the shared snapshots: a reader that accepts a copy has one *)
(* snapshot, for every size, number of readers, kills and restarts.  The   *)
(* argument: an even number stands over a whole snapshot, the number of a  *)
(* file never falls (unless a restart clears it, the case of the map), and *)
(* so a reader that finds its number again has copied words that nobody    *)
(* changed meanwhile.                                                      *)
(***************************************************************************)
EXTENDS SharedHistory, TLAPS

Uniform(c) == \A k \in Cells : c[k] = c[1]
Held(r) == rd[r].pc \in {"open", "load", "copy", "check"}

\* What the writer has behind it, where it stands.
WriterInv ==
    /\ w.pc = "idle" => ~Odd(Seq) /\ mem[w.ino].magic = TRUE /\ Uniform(mem[w.ino].cell)
    /\ w.pc = "write" =>
           /\ Odd(Seq) /\ mem[w.ino].magic = TRUE
           /\ \/ \A k \in Cells : k < w.k => mem[w.ino].cell[k] = stamp
              \/ w.k = Words + 1 /\ Uniform(mem[w.ino].cell)
    /\ w.pc = "clear" =>
           Restart = "zero" /\ ~Odd(Seq) /\ \A k \in Cells : k < w.k => mem[w.ino].cell[k] = 0

\* An even number stands over a whole snapshot; a start from zero breaks this.
EvenIsWhole ==
    Restart # "zero" => \A i \in Inodes : ~Odd(mem[i].seq) => Uniform(mem[i].cell)

\* One reader at a time has the mapping, and it is the file it looked at.
ReaderOK(r) ==
    /\ Held(r) => lock = r
    /\ rd[r].pc \in {"load", "copy", "check"} => mapped \in Inodes /\ rd[r].ino = mapped
    /\ rd[r].tries < MaxTries
    /\ rd[r].pc = "copy" => rd[r].k <= Words
    /\ rd[r].pc = "check" => rd[r].k = Words + 1

\* What was copied under a number that still stands is what the file holds.
CopyOK(r) ==
    /\ rd[r].pc \in {"copy", "check"} =>
           /\ ~Odd(rd[r].before) /\ rd[r].before <= mem[mapped].seq
           /\ mem[mapped].seq = rd[r].before =>
                  \A k \in Cells : k < rd[r].k => rd[r].copy[k] = mem[mapped].cell[k]
    /\ rd[r].pc = "done" => Uniform(rd[r].copy)

ReaderInv == \A r \in Readers : ReaderOK(r)
CopyInv   == Restart # "zero" => \A r \in Readers : CopyOK(r)

IInv == TypeOK /\ WriterInv /\ EvenIsWhole /\ ReaderInv /\ CopyInv
-----------------------------------------------------------------------------
(* The initial state, and the types.                                       *)
LEMMA OddStep ==
  ASSUME NEW n \in Nat
  PROVE  /\ Odd(n + 1) <=> ~Odd(n)
         /\ Odd(n + (n % 2) + 1) /\ n + (n % 2) + 1 \in Nat /\ n + (n % 2) + 1 > n
         /\ ~Odd(0)
BY DEF Odd

LEMMA InitInv == HistoryAssumption /\ Init => IInv
BY DEF HistoryAssumption, Init, IInv, TypeOK, WriterInv, EvenIsWhole, ReaderInv, CopyInv, ReaderOK, CopyOK,
       Page, Writer, Reader, Uniform, Held, Blank, Resting, Cells, Odd, Seq

\* A reader at rest is a well-formed reader.
LEMMA RestingType ==
  ASSUME HistoryAssumption
  PROVE  /\ Resting \in Reader /\ Resting.pc = "idle" /\ Resting.tries = 0
         /\ [Resting EXCEPT !.pc = "open"] \in Reader
         /\ [Resting EXCEPT !.pc = "open"].pc = "open"
         /\ [Resting EXCEPT !.pc = "open"].tries = 0
BY DEF HistoryAssumption, Resting, Reader, Cells

\* Stores into one page keep the pages well formed.
LEMMA PageType ==
  ASSUME NEW m \in [Inodes -> Page], NEW i \in Inodes
  PROVE  /\ \A s \in Nat : [m EXCEPT ![i].seq = s] \in [Inodes -> Page]
         /\ \A b \in BOOLEAN : [m EXCEPT ![i].magic = b] \in [Inodes -> Page]
         /\ \A k \in Cells, v \in 0..MaxUpdates : [m EXCEPT ![i].cell[k] = v] \in [Inodes -> Page]
BY DEF Page

\* So do the steps of one reader.
LEMMA ReaderFields ==
  ASSUME NEW f \in [Readers -> Reader], NEW r \in Readers
  PROVE  /\ \A p \in {"idle", "open", "load", "copy", "check", "done"} :
                [f EXCEPT ![r].pc = p] \in [Readers -> Reader]
         /\ \A n \in Inodes \cup {0} : [f EXCEPT ![r].ino = n] \in [Readers -> Reader]
         /\ \A n \in 0..MaxTries : [f EXCEPT ![r].tries = n] \in [Readers -> Reader]
         /\ \A n \in Nat : [f EXCEPT ![r].before = n] \in [Readers -> Reader]
         /\ \A n \in 1..Words + 1 : [f EXCEPT ![r].k = n] \in [Readers -> Reader]
         /\ \A k \in Cells, v \in 0..MaxUpdates : [f EXCEPT ![r].copy[k] = v] \in [Readers -> Reader]
<1>1. \A p \in {"idle", "open", "load", "copy", "check", "done"} :
          [f EXCEPT ![r].pc = p] \in [Readers -> Reader]
  BY DEF Reader
<1>2. \A n \in Inodes \cup {0} : [f EXCEPT ![r].ino = n] \in [Readers -> Reader]
  BY DEF Reader
<1>3. \A n \in 0..MaxTries : [f EXCEPT ![r].tries = n] \in [Readers -> Reader]
  BY DEF Reader
<1>4. \A n \in Nat : [f EXCEPT ![r].before = n] \in [Readers -> Reader]
  BY DEF Reader
<1>5. \A n \in 1..Words + 1 : [f EXCEPT ![r].k = n] \in [Readers -> Reader]
  BY DEF Reader
<1>6. \A k \in Cells, v \in 0..MaxUpdates : [f EXCEPT ![r].copy[k] = v] \in [Readers -> Reader]
  BY DEF Reader
<1> QED
  BY <1>1, <1>2, <1>3, <1>4, <1>5, <1>6

-----------------------------------------------------------------------------
(* What the writer's steps do to the page they are at.                     *)
LEMMA StartEffect ==
  ASSUME HistoryAssumption, TypeOK, NEW i \in Inodes, Start(i)
  PROVE  /\ mem' \in [Inodes -> Page] /\ w' \in Writer /\ w'.ino = i
         /\ \A j \in Inodes \ {i} : mem'[j] = mem[j]
         /\ mem'[i].cell = mem[i].cell
         /\ IF Restart = "zero"
            THEN mem'[i].seq = 0 /\ w'.pc = "clear" /\ w'.k = 1
            ELSE /\ mem'[i].seq = mem[i].seq + (mem[i].seq % 2) + 1
                 /\ mem'[i].magic = TRUE /\ w'.pc = "write"
                 /\ w'.k = 1 \/ (w'.k = Words + 1 /\ ~Odd(mem[i].seq))
<1> USE DEF HistoryAssumption, TypeOK, Start
<1>1. CASE Restart = "zero"
  <2> DEFINE m == [mem EXCEPT ![i].seq = 0]
  <2>1. m \in [Inodes -> Page]
    BY PageType
  <2>2. mem' = [m EXCEPT ![i].magic = FALSE]
    BY <1>1 DEF StartFromZero
  <2>3. mem' \in [Inodes -> Page]
    BY <2>1, <2>2, PageType
  <2> QED
    BY <1>1, <2>3 DEF StartFromZero, Page, Writer
<1>2. CASE Restart # "zero"
  <2> DEFINE s == mem[i].seq + (mem[i].seq % 2) + 1
             m == [mem EXCEPT ![i].seq = s]
  <2>1. s \in Nat
    BY OddStep DEF Page
  <2>2. m \in [Inodes -> Page]
    BY <2>1, PageType
  <2>3. mem' = [m EXCEPT ![i].magic = TRUE]
    BY <1>2 DEF StartInPlace
  <2>4. mem' \in [Inodes -> Page]
    BY <2>2, <2>3, PageType
  <2>5. mem'[i].magic = TRUE
    BY <2>2, <2>3, Zenon DEF Page
  <2> QED
    BY <1>2, <2>4, <2>5 DEF StartInPlace, Page, Writer
<1> QED
  BY <1>1, <1>2

\* The types of the parts of the writer and of the pages.
LEMMA Parts ==
  ASSUME HistoryAssumption, TypeOK
  PROVE  /\ w \in Writer /\ w.ino \in Inodes /\ w.k \in 1..Words + 1
         /\ mem \in [Inodes -> Page] /\ mem[w.ino].seq \in Nat /\ mem[w.ino].seq + 1 \in Nat
         /\ \A i \in Inodes : mem[i].seq \in Nat /\ mem[i].cell \in [Cells -> 0..MaxUpdates]
         /\ Words \in Nat \ {0} /\ MaxUpdates \in Nat /\ 1 \in Cells /\ 0 \in 0..MaxUpdates
<1>1. w \in Writer /\ w.ino \in Inodes /\ w.k \in 1..Words + 1
  BY DEF TypeOK, Writer
<1>2. mem \in [Inodes -> Page]
  BY DEF TypeOK
<1>3. \A i \in Inodes : mem[i].seq \in Nat /\ mem[i].cell \in [Cells -> 0..MaxUpdates]
  BY <1>2 DEF Page
<1>4. Words \in Nat \ {0} /\ MaxUpdates \in Nat /\ 1 \in Cells /\ 0 \in 0..MaxUpdates
  BY DEF HistoryAssumption, Cells
<1> QED
  BY <1>1, <1>2, <1>3, <1>4

LEMMA ClearEffect ==
  ASSUME HistoryAssumption, TypeOK, Clear
  PROVE  /\ mem' \in [Inodes -> Page] /\ w' \in Writer /\ w'.ino = w.ino
         /\ \A j \in Inodes \ {w.ino} : mem'[j] = mem[j]
         /\ mem'[w.ino].seq = mem[w.ino].seq
         /\ \/ /\ w.k > Words /\ w'.pc = "idle" /\ w'.k = w.k
               /\ mem'[w.ino].cell = mem[w.ino].cell /\ mem'[w.ino].magic = TRUE
            \/ /\ w.k \in Cells /\ w'.pc = "clear" /\ w'.k = w.k + 1
               /\ mem'[w.ino].cell = [mem[w.ino].cell EXCEPT ![w.k] = 0]
<1> USE Parts
<1>0. w.pc = "clear"
  BY DEF Clear
<1>1. CASE w.k > Words
  <2>1. mem' = [mem EXCEPT ![w.ino].magic = TRUE] /\ w' = [w EXCEPT !.pc = "idle"]
    BY <1>1 DEF Clear
  <2>2. mem' \in [Inodes -> Page]
    BY <1>0, <2>1, PageType
  <2>3. mem'[w.ino].magic = TRUE
    BY <1>0, <2>1, Zenon DEF Page
  <2>4. w' \in Writer /\ w'.ino = w.ino /\ w'.pc = "idle" /\ w'.k = w.k
    BY <1>0, <2>1 DEF Writer
  <2> QED
    BY <1>0, <1>1, <2>1, <2>2, <2>3, <2>4 DEF Page
<1>2. CASE ~(w.k > Words)
  <2>1. mem' = [mem EXCEPT ![w.ino].cell[w.k] = 0] /\ w' = [w EXCEPT !.k = w.k + 1]
    BY <1>2 DEF Clear
  <2>2. w.k \in Cells
    BY <1>0, <1>2 DEF Cells
  <2>3. mem' \in [Inodes -> Page]
    BY <1>0, <2>1, <2>2, PageType
  <2>4. w' \in Writer /\ w'.ino = w.ino /\ w'.pc = "clear" /\ w'.k = w.k + 1
    BY <1>0, <1>2, <2>1 DEF Writer
  <2> QED
    BY <1>0, <2>1, <2>2, <2>3, <2>4 DEF Page
<1> QED
  BY <1>1, <1>2

LEMMA BeginEffect ==
  ASSUME HistoryAssumption, TypeOK, BeginUpdate
  PROVE  /\ mem' \in [Inodes -> Page] /\ w' \in Writer /\ w'.ino = w.ino
         /\ \A j \in Inodes \ {w.ino} : mem'[j] = mem[j]
         /\ mem'[w.ino].seq = mem[w.ino].seq + 1
         /\ mem'[w.ino].magic = mem[w.ino].magic
         /\ mem'[w.ino].cell = mem[w.ino].cell
         /\ w'.pc = "write" /\ w'.k = 1
<1> USE Parts
<1>1. mem' = [mem EXCEPT ![w.ino].seq = mem[w.ino].seq + 1] /\ w' = [w EXCEPT !.pc = "write", !.k = 1]
  BY DEF BeginUpdate
<1>2. mem' \in [Inodes -> Page]
  BY <1>1, PageType
<1>3. w' \in Writer /\ w'.ino = w.ino /\ w'.pc = "write" /\ w'.k = 1
  <2> DEFINE u == [w EXCEPT !.pc = "write"]
  <2>1. u \in Writer /\ u.ino = w.ino /\ u.pc = "write"
    BY DEF Writer
  <2>2. w' = [u EXCEPT !.k = 1]
    BY <1>1
  <2> HIDE DEF u
  <2> QED
    BY <2>1, <2>2 DEF Writer
<1> QED
  BY <1>1, <1>2, <1>3 DEF Page

LEMMA WordEffect ==
  ASSUME HistoryAssumption, TypeOK, WriteWord
  PROVE  /\ mem' \in [Inodes -> Page] /\ w' \in Writer /\ w'.ino = w.ino
         /\ \A j \in Inodes \ {w.ino} : mem'[j] = mem[j]
         /\ mem'[w.ino].seq = mem[w.ino].seq
         /\ mem'[w.ino].magic = mem[w.ino].magic
         /\ w.k \in Cells /\ mem'[w.ino].cell = [mem[w.ino].cell EXCEPT ![w.k] = stamp]
         /\ w'.pc = "write" /\ w'.k = w.k + 1
<1> USE Parts
<1>0. w.k \in Cells /\ w.pc = "write" /\ stamp \in 0..MaxUpdates
  BY DEF TypeOK, WriteWord, Cells
<1>1. mem' = [mem EXCEPT ![w.ino].cell[w.k] = stamp] /\ w' = [w EXCEPT !.k = w.k + 1]
  BY DEF WriteWord
<1>2. mem' \in [Inodes -> Page]
  BY <1>0, <1>1, PageType
<1>3. w' \in Writer /\ w'.ino = w.ino /\ w'.pc = "write" /\ w'.k = w.k + 1
  BY <1>0, <1>1 DEF Writer, Cells
<1> QED
  BY <1>0, <1>1, <1>2, <1>3 DEF Page

LEMMA EndEffect ==
  ASSUME HistoryAssumption, TypeOK, EndUpdate
  PROVE  /\ mem' \in [Inodes -> Page] /\ w' \in Writer /\ w'.ino = w.ino
         /\ \A j \in Inodes \ {w.ino} : mem'[j] = mem[j]
         /\ mem'[w.ino].seq = mem[w.ino].seq + 1
         /\ mem'[w.ino].magic = mem[w.ino].magic
         /\ mem'[w.ino].cell = mem[w.ino].cell
         /\ w'.pc = "idle" /\ w.k = Words + 1
<1>0. w.k = Words + 1
  <2>1. w.k \in 1..Words + 1 /\ Words \in Nat
    BY Parts
  <2>2. w.k > Words
    BY DEF EndUpdate
  <2> QED
    BY <2>1, <2>2
<1> USE Parts
<1>1. mem' = [mem EXCEPT ![w.ino].seq = mem[w.ino].seq + 1] /\ w' = [w EXCEPT !.pc = "idle"]
  BY DEF EndUpdate
<1>2. mem' \in [Inodes -> Page]
  BY <1>0, <1>1, PageType
<1>3. w' \in Writer /\ w'.ino = w.ino /\ w'.pc = "idle"
  BY <1>0, <1>1 DEF Writer
<1> QED
  BY <1>0, <1>1, <1>2, <1>3 DEF Page

-----------------------------------------------------------------------------
(* The writer's steps keep the invariant.                                  *)
Writing == (\E i \in Inodes : Start(i)) \/ Clear \/ BeginUpdate \/ WriteWord \/ EndUpdate \/ Kill \/ Unlink

LEMMA WritingType == HistoryAssumption /\ TypeOK /\ Writing => TypeOK'
<1> SUFFICES ASSUME HistoryAssumption, TypeOK, Writing PROVE TypeOK'
  OBVIOUS
<1>1. ASSUME NEW i \in Inodes, Start(i) PROVE TypeOK'
  <2>1. mem' \in [Inodes -> Page] /\ w' \in Writer
    BY <1>1, StartEffect
  <2> QED
    BY <1>1, <2>1 DEF HistoryAssumption, TypeOK, Start, readerVars
<1>2. CASE Clear
  BY <1>2, ClearEffect DEF TypeOK, Clear, readerVars
<1>3. CASE BeginUpdate
  BY <1>3, BeginEffect DEF HistoryAssumption, TypeOK, BeginUpdate, readerVars
<1>4. CASE WriteWord
  BY <1>4, WordEffect DEF TypeOK, WriteWord, readerVars
<1>5. CASE EndUpdate
  BY <1>5, EndEffect DEF TypeOK, EndUpdate, readerVars
<1>6. CASE Kill
  BY <1>6 DEF HistoryAssumption, TypeOK, Kill, readerVars, Writer
<1>7. CASE Unlink
  BY <1>7 DEF TypeOK, Unlink, readerVars
<1> QED
  BY <1>1, <1>2, <1>3, <1>4, <1>5, <1>6, <1>7 DEF Writing

LEMMA WritingInv == HistoryAssumption /\ TypeOK /\ WriterInv /\ EvenIsWhole /\ Writing => WriterInv'
<1> SUFFICES ASSUME HistoryAssumption, TypeOK, WriterInv, EvenIsWhole, Writing PROVE WriterInv'
  OBVIOUS
<1>0. /\ w.ino \in Inodes /\ w.k \in 1..Words + 1 /\ mem[w.ino].seq \in Nat
      /\ mem[w.ino].cell \in [Cells -> 0..MaxUpdates]
      /\ Words \in Nat \ {0} /\ MaxUpdates \in Nat /\ 1 \in Cells
  BY Parts
<1>1. ASSUME NEW i \in Inodes, Start(i) PROVE WriterInv'
  <2>1. mem[i].seq \in Nat
    BY Parts
  <2>2. CASE Restart = "zero"
    <3>1. w'.ino = i /\ w'.pc = "clear" /\ w'.k = 1 /\ mem'[i].seq = 0
      BY <1>1, <2>2, StartEffect
    <3> QED
      BY <3>1, <2>2, OddStep DEF WriterInv, Seq, Cells
  <2>3. CASE Restart # "zero"
    <3>1. /\ w'.ino = i /\ w'.pc = "write" /\ mem'[i].magic = TRUE /\ mem'[i].cell = mem[i].cell
          /\ mem'[i].seq = mem[i].seq + (mem[i].seq % 2) + 1
          /\ w'.k = 1 \/ (w'.k = Words + 1 /\ ~Odd(mem[i].seq))
      BY <1>1, <2>3, StartEffect
    <3>2. Odd(mem'[i].seq)
      BY <2>1, <3>1, OddStep
    <3>3. CASE w'.k = 1
      BY <3>1, <3>2, <3>3 DEF WriterInv, Seq, Cells
    <3>4. CASE w'.k = Words + 1 /\ ~Odd(mem[i].seq)
      <4>1. Uniform(mem'[i].cell)
        BY <2>3, <3>1, <3>4 DEF EvenIsWhole
      <4> QED
        BY <3>1, <3>2, <3>4, <4>1 DEF WriterInv, Seq, Uniform
    <3> QED
      BY <3>1, <3>3, <3>4
  <2> QED
    BY <2>2, <2>3
<1>2. CASE Clear
  <2>1. /\ w'.ino = w.ino /\ mem'[w.ino].seq = mem[w.ino].seq /\ w.pc = "clear"
        /\ \/ /\ w.k > Words /\ w'.pc = "idle" /\ w'.k = w.k
              /\ mem'[w.ino].cell = mem[w.ino].cell /\ mem'[w.ino].magic = TRUE
           \/ /\ w.k \in Cells /\ w'.pc = "clear" /\ w'.k = w.k + 1
              /\ mem'[w.ino].cell = [mem[w.ino].cell EXCEPT ![w.k] = 0]
    BY <1>2, ClearEffect DEF Clear
  <2>2. Restart = "zero" /\ ~Odd(mem[w.ino].seq) /\ \A k \in Cells : k < w.k => mem[w.ino].cell[k] = 0
    BY <2>1 DEF WriterInv, Seq
  <2>3. CASE w.k > Words
    <3>1. \A k \in Cells : mem'[w.ino].cell[k] = 0
      BY <1>0, <2>1, <2>2, <2>3 DEF Cells
    <3> QED
      BY <1>0, <2>1, <2>2, <2>3, <3>1 DEF WriterInv, Seq, Uniform, Cells
  <2>4. CASE ~(w.k > Words)
    <3>0. w.k \in Cells /\ mem'[w.ino].cell = [mem[w.ino].cell EXCEPT ![w.k] = 0]
      BY <2>1, <2>4
    <3>1. ASSUME NEW k \in Cells, k < w.k + 1 PROVE mem'[w.ino].cell[k] = 0
      <4>1. k = w.k \/ k < w.k
        BY <1>0, <3>1 DEF Cells
      <4> QED
        BY <1>0, <2>2, <3>0, <4>1
    <3> QED
      BY <1>0, <2>1, <2>2, <2>4, <3>1 DEF WriterInv, Seq
  <2> QED
    BY <2>3, <2>4
<1>3. CASE BeginUpdate
  <2>1. /\ w'.ino = w.ino /\ mem'[w.ino].seq = mem[w.ino].seq + 1 /\ w.pc = "idle"
        /\ mem'[w.ino].magic = mem[w.ino].magic /\ w'.pc = "write" /\ w'.k = 1
    BY <1>3, BeginEffect DEF BeginUpdate
  <2>2. ~Odd(mem[w.ino].seq) /\ mem[w.ino].magic = TRUE
    BY <2>1 DEF WriterInv, Seq
  <2>3. Odd(mem'[w.ino].seq)
    BY <1>0, <2>1, <2>2, OddStep
  <2> QED
    BY <2>1, <2>2, <2>3 DEF WriterInv, Seq, Cells
<1>4. CASE WriteWord
  BY <1>0, <1>4, WordEffect DEF WriterInv, WriteWord, Seq, Cells
<1>5. CASE EndUpdate
  <2>1. /\ w'.ino = w.ino /\ mem'[w.ino].seq = mem[w.ino].seq + 1 /\ w.pc = "write"
        /\ mem'[w.ino].magic = mem[w.ino].magic /\ w'.pc = "idle" /\ w.k = Words + 1
        /\ mem'[w.ino].cell = mem[w.ino].cell
    BY <1>5, EndEffect DEF EndUpdate
  <2>2. Odd(mem[w.ino].seq) /\ mem[w.ino].magic = TRUE /\ Uniform(mem[w.ino].cell)
    BY <1>0, <2>1 DEF WriterInv, Seq, Uniform, Cells
  <2>3. ~Odd(mem'[w.ino].seq)
    BY <1>0, <2>1, <2>2, OddStep
  <2> QED
    BY <2>1, <2>2, <2>3 DEF WriterInv, Seq, Uniform
<1>6. CASE Kill
  BY <1>6 DEF TypeOK, Kill, WriterInv, Writer
<1>7. CASE Unlink
  BY <1>7 DEF Unlink, WriterInv, Seq
<1> QED
  BY <1>1, <1>2, <1>3, <1>4, <1>5, <1>6, <1>7 DEF Writing

(* A number of a page never falls, and words change only under a number    *)
(* that is odd or that changes with them.                                  *)
LEMMA NumbersGrow ==
  ASSUME HistoryAssumption, TypeOK, WriterInv, Writing, Restart # "zero", NEW i \in Inodes
  PROVE  /\ mem'[i].seq \in Nat /\ mem[i].seq <= mem'[i].seq
         /\ mem'[i].seq = mem[i].seq /\ ~Odd(mem[i].seq) => mem'[i].cell = mem[i].cell
<1>0. mem[i].seq \in Nat /\ w.ino \in Inodes
  BY Parts
<1> DEFINE Grows == /\ mem'[i].seq \in Nat /\ mem[i].seq <= mem'[i].seq
                    /\ mem'[i].seq = mem[i].seq /\ ~Odd(mem[i].seq) => mem'[i].cell = mem[i].cell
<1>1. ASSUME NEW j \in Inodes, Start(j) PROVE Grows
  <2>1. i # j => mem'[i] = mem[i]
    BY <1>1, StartEffect
  <2>2. i = j => mem'[i].seq = mem[i].seq + (mem[i].seq % 2) + 1
    BY <1>1, StartEffect
  <2> QED
    BY <1>0, <2>1, <2>2, OddStep
<1>2. CASE BeginUpdate
  <2>1. i # w.ino => mem'[i] = mem[i]
    BY <1>2, BeginEffect
  <2>2. i = w.ino => mem'[i].seq = mem[i].seq + 1
    BY <1>2, BeginEffect
  <2> QED
    BY <1>0, <2>1, <2>2
<1>3. CASE WriteWord
  <2>1. i # w.ino => mem'[i] = mem[i]
    BY <1>3, WordEffect
  <2>2. i = w.ino => mem'[i].seq = mem[i].seq /\ Odd(mem[i].seq)
    BY <1>3, WordEffect DEF WriterInv, WriteWord, Seq
  <2> QED
    BY <1>0, <2>1, <2>2
<1>4. CASE EndUpdate
  <2>1. i # w.ino => mem'[i] = mem[i]
    BY <1>4, EndEffect
  <2>2. i = w.ino => mem'[i].seq = mem[i].seq + 1
    BY <1>4, EndEffect
  <2> QED
    BY <1>0, <2>1, <2>2
<1>5. CASE Kill \/ Unlink
  BY <1>0, <1>5 DEF Kill, Unlink
<1>6. ~Clear
  BY DEF Clear, WriterInv
<1> QED
  BY <1>1, <1>2, <1>3, <1>4, <1>5, <1>6 DEF Writing

LEMMA WritingWhole ==
  HistoryAssumption /\ TypeOK /\ WriterInv /\ EvenIsWhole /\ Writing => EvenIsWhole'
<1> SUFFICES ASSUME HistoryAssumption, TypeOK, WriterInv, EvenIsWhole, Writing, Restart # "zero",
                    NEW i \in Inodes, ~Odd(mem'[i].seq)
             PROVE  Uniform(mem'[i].cell)
  BY DEF EvenIsWhole, Uniform
<1>0. mem[i].seq \in Nat /\ mem'[i].seq \in Nat /\ w.ino \in Inodes /\ Words \in Nat \ {0}
  BY Parts, NumbersGrow
<1>1. CASE mem'[i] = mem[i]
  BY <1>1 DEF EvenIsWhole
<1>2. ASSUME NEW j \in Inodes, Start(j) PROVE mem'[i] = mem[i]
  <2>1. i # j => mem'[i] = mem[i]
    BY <1>2, StartEffect
  <2>2. i = j => mem'[i].seq = mem[i].seq + (mem[i].seq % 2) + 1
    BY <1>2, StartEffect
  <2> QED
    BY <1>0, <2>1, <2>2, OddStep
<1>3. CASE BeginUpdate
  <2>1. i # w.ino => mem'[i] = mem[i]
    BY <1>3, BeginEffect
  <2>2. i = w.ino => mem'[i].seq = mem[i].seq + 1 /\ ~Odd(mem[i].seq)
    BY <1>3, BeginEffect DEF WriterInv, BeginUpdate, Seq
  <2> QED
    BY <1>0, <1>1, <2>1, <2>2, OddStep
<1>4. CASE WriteWord
  <2>1. i # w.ino => mem'[i] = mem[i]
    BY <1>4, WordEffect
  <2>2. i = w.ino => mem'[i].seq = mem[i].seq /\ Odd(mem[i].seq)
    BY <1>4, WordEffect DEF WriterInv, WriteWord, Seq
  <2> QED
    BY <1>1, <2>1, <2>2
<1>5. CASE EndUpdate
  <2>1. i # w.ino => mem'[i] = mem[i]
    BY <1>5, EndEffect
  <2>2. i = w.ino => mem'[i].cell = mem[i].cell /\ w.pc = "write" /\ w.k = Words + 1
    BY <1>5, EndEffect DEF EndUpdate
  <2>3. i = w.ino => Uniform(mem[i].cell)
    BY <1>0, <2>2 DEF WriterInv, Uniform, Cells
  <2> QED
    BY <1>1, <2>1, <2>2, <2>3
<1>6. CASE Kill \/ Unlink
  BY <1>1, <1>6 DEF Kill, Unlink
<1>7. ~Clear
  BY DEF Clear, WriterInv
<1> QED
  BY <1>1, <1>2, <1>3, <1>4, <1>5, <1>6, <1>7 DEF Writing

LEMMA WritingReaders == ReaderInv /\ Writing => ReaderInv' /\ UNCHANGED readerVars
BY DEF ReaderInv, ReaderOK, Held, Writing, Start, Clear, BeginUpdate, WriteWord, EndUpdate, Kill, Unlink, readerVars

LEMMA WritingCopies ==
  HistoryAssumption /\ TypeOK /\ WriterInv /\ ReaderInv /\ CopyInv /\ Writing => CopyInv'
<1> SUFFICES ASSUME HistoryAssumption, TypeOK, WriterInv, ReaderInv, CopyInv, Writing,
                    Restart # "zero", NEW r \in Readers
             PROVE  CopyOK(r)'
  BY DEF CopyInv
<1>0. UNCHANGED readerVars /\ CopyOK(r) /\ ReaderOK(r)
  BY WritingReaders DEF ReaderInv, CopyInv
<1>1. CASE rd[r].pc \in {"copy", "check"}
  <2>1. /\ ~Odd(rd[r].before) /\ rd[r].before <= mem[mapped].seq
        /\ mem[mapped].seq = rd[r].before =>
               \A k \in Cells : k < rd[r].k => rd[r].copy[k] = mem[mapped].cell[k]
    BY <1>0, <1>1 DEF CopyOK
  <2>2. mapped \in Inodes /\ rd[r].before \in Nat
    BY <1>0, <1>1 DEF ReaderOK, TypeOK, Reader
  <2>3. mem[mapped].seq \in Nat
    BY <2>2, Parts
  <2>4. /\ mem'[mapped].seq \in Nat /\ mem[mapped].seq <= mem'[mapped].seq
        /\ mem'[mapped].seq = mem[mapped].seq /\ ~Odd(mem[mapped].seq)
             => mem'[mapped].cell = mem[mapped].cell
    BY <2>2, NumbersGrow
  <2> QED
    BY <1>0, <1>1, <2>1, <2>2, <2>3, <2>4 DEF CopyOK, readerVars
<1>2. CASE rd[r].pc \notin {"copy", "check"}
  BY <1>0, <1>2 DEF CopyOK, readerVars, Uniform
<1> QED
  BY <1>1, <1>2

LEMMA WritingStep == HistoryAssumption /\ IInv /\ Writing => IInv'
BY WritingType, WritingInv, WritingWhole, WritingReaders, WritingCopies DEF IInv

-----------------------------------------------------------------------------
(* The readers' steps: the reader that moves, and what it leaves to the    *)
(* others.                                                                 *)

\* The others keep their part when one reader moves and the mapping and the lock are not theirs.
LEMMA OthersKept ==
  ASSUME HistoryAssumption, TypeOK, ReaderInv, CopyInv, NEW r \in Readers,
         UNCHANGED writerVars, lock' # lock => lock \in {r, "free"}, mapped' # mapped => lock = r,
         \A q \in Readers \ {r} : rd'[q] = rd[q],
         ReaderOK(r)', Restart # "zero" => CopyOK(r)'
  PROVE  ReaderInv' /\ CopyInv'
<1>1. ASSUME NEW q \in Readers, q # r
      PROVE  ReaderOK(q)' /\ (Restart # "zero" => CopyOK(q)')
  <2>1. rd'[q] = rd[q] /\ mem' = mem /\ ReaderOK(q) /\ (Restart # "zero" => CopyOK(q))
    BY <1>1 DEF ReaderInv, CopyInv, writerVars
  <2>2. CASE Held(q)
    <3>1. lock = q /\ q # "free"
      BY <2>1, <2>2 DEF ReaderOK, HistoryAssumption
    <3>2. lock' = lock /\ mapped' = mapped
      BY <1>1, <3>1
    <3> QED
      BY <2>1, <3>2 DEF ReaderOK, CopyOK, Held, Uniform
  <2>3. CASE ~Held(q)
    BY <2>1, <2>3 DEF ReaderOK, CopyOK, Held, Uniform
  <2> QED
    BY <2>2, <2>3
<1> QED
  BY <1>1 DEF ReaderInv, CopyInv

LEMMA WriterKept ==
  WriterInv /\ EvenIsWhole /\ UNCHANGED writerVars => WriterInv' /\ EvenIsWhole'
BY DEF WriterInv, EvenIsWhole, writerVars, Seq, Uniform

\* A reader that rests has nothing to keep.
LEMMA RestKept ==
  ASSUME HistoryAssumption, NEW r \in Readers, rd' = [rd EXCEPT ![r] = Resting], TypeOK
  PROVE  /\ ReaderOK(r)' /\ CopyOK(r)' /\ rd' \in [Readers -> Reader]
         /\ \A q \in Readers \ {r} : rd'[q] = rd[q]
<1>1. rd'[r] = Resting /\ rd' \in [Readers -> Reader] /\ \A q \in Readers \ {r} : rd'[q] = rd[q]
  BY RestingType DEF TypeOK
<1> QED
  BY <1>1, RestingType DEF ReaderOK, CopyOK, Held, HistoryAssumption

\* The next attempt, or the last one.
LEMMA AgainEffect ==
  ASSUME HistoryAssumption, TypeOK, ReaderInv, NEW r \in Readers, Again(r), Held(r), rd[r].pc # "open",
         UNCHANGED mapped
  PROVE  /\ ReaderOK(r)' /\ CopyOK(r)' /\ rd' \in [Readers -> Reader]
         /\ \A q \in Readers \ {r} : rd'[q] = rd[q]
         /\ lock' = lock \/ (lock = r /\ lock' = "free")
<1>0. /\ rd \in [Readers -> Reader] /\ rd[r].tries \in 0..MaxTries /\ MaxTries \in Nat
      /\ lock = r /\ mapped \in Inodes /\ rd[r].ino = mapped /\ rd[r].tries < MaxTries
  <2>1. rd \in [Readers -> Reader] /\ rd[r] \in Reader
    BY DEF TypeOK
  <2> QED
    BY <2>1 DEF Reader, HistoryAssumption, ReaderInv, ReaderOK, Held
<1>1. CASE rd[r].tries + 1 = MaxTries
  BY <1>0, <1>1, RestKept DEF Again
<1>2. CASE rd[r].tries + 1 # MaxTries
  <2>1. UNCHANGED lock /\ rd' = [rd EXCEPT ![r].pc = "load", ![r].tries = rd[r].tries + 1]
    BY <1>2 DEF Again
  <2> DEFINE f == [rd EXCEPT ![r].pc = "load"]
  <2>2. f \in [Readers -> Reader]
    BY <1>0, ReaderFields
  <2>3. rd' = [f EXCEPT ![r].tries = rd[r].tries + 1]
    BY <2>1
  <2>4. rd[r].tries + 1 \in 0..MaxTries /\ rd[r].tries + 1 < MaxTries
    BY <1>0, <1>2
  <2>5. rd' \in [Readers -> Reader]
    BY <2>2, <2>3, <2>4, ReaderFields
  <2>6. /\ rd'[r].pc = "load" /\ rd'[r].tries = rd[r].tries + 1 /\ rd'[r].ino = rd[r].ino
        /\ \A q \in Readers \ {r} : rd'[q] = rd[q]
    BY <1>0, <2>1 DEF Reader
  <2>7. CopyOK(r)'
    BY <2>6 DEF CopyOK
  <2>8. ReaderOK(r)'
    BY <1>0, <2>1, <2>4, <2>6 DEF ReaderOK, Held
  <2>9. lock' = lock
    BY <2>1
  <2> HIDE DEF f
  <2> QED
    BY <2>5, <2>6, <2>7, <2>8, <2>9
<1> QED
  BY <1>1, <1>2

LEMMA LoadStep ==
  ASSUME HistoryAssumption, IInv, NEW r \in Readers, Load(r)
  PROVE  IInv'
<1>0. /\ rd \in [Readers -> Reader] /\ rd[r].pc = "load" /\ lock = r /\ mapped \in Inodes
      /\ rd[r].ino = mapped /\ rd[r].tries < MaxTries
      /\ Words \in Nat \ {0} /\ TypeOK /\ ReaderInv
  BY DEF IInv, TypeOK, ReaderInv, ReaderOK, Held, Load, HistoryAssumption
<1>1. mem[mapped].seq \in Nat
  BY <1>0, Parts
<1>2. UNCHANGED writerVars /\ UNCHANGED mapped
  BY DEF Load
<1>3. CASE Again(r)
  BY <1>0, <1>2, <1>3, AgainEffect, OthersKept, WriterKept DEF IInv, TypeOK, writerVars, Held
<1>4. CASE ~Again(r)
  <2> DEFINE s == mem[mapped].seq
  <2>1. /\ ~Odd(s) /\ UNCHANGED lock
        /\ rd' = [rd EXCEPT ![r].pc = "copy", ![r].before = s, ![r].k = 1]
    BY <1>4 DEF Load
  <2> DEFINE f == [rd EXCEPT ![r].pc = "copy"]
             g == [f EXCEPT ![r].before = s]
  <2>2. f \in [Readers -> Reader]
    BY <1>0, ReaderFields
  <2>3. g \in [Readers -> Reader]
    BY <1>1, <2>2, ReaderFields
  <2>4. rd' = [g EXCEPT ![r].k = 1]
    BY <2>1
  <2>5. rd' \in [Readers -> Reader]
    <3>1. 1 \in 1..Words + 1
      BY <1>0
    <3> QED
      BY <3>1, <2>3, <2>4, ReaderFields
  <2>6. /\ rd'[r].pc = "copy" /\ rd'[r].before = s /\ rd'[r].k = 1 /\ rd'[r].ino = rd[r].ino
        /\ rd'[r].tries = rd[r].tries /\ \A q \in Readers \ {r} : rd'[q] = rd[q]
    BY <1>0, <2>1 DEF Reader
  <2>7. ReaderOK(r)'
    BY <1>0, <1>2, <2>1, <2>6 DEF ReaderOK, Held
  <2>8. CopyOK(r)'
    BY <1>0, <1>1, <1>2, <2>1, <2>6 DEF CopyOK, writerVars, Cells
  <2> QED
    BY <1>0, <1>2, <2>1, <2>5, <2>6, <2>7, <2>8, OthersKept, WriterKept DEF IInv, TypeOK, writerVars
<1> QED
  BY <1>3, <1>4

LEMMA CopyStep ==
  ASSUME HistoryAssumption, IInv, NEW r \in Readers, CopyWord(r)
  PROVE  IInv'
<1> DEFINE n == rd[r].k
           p == IF n = Words THEN "check" ELSE "copy"
<1>0. /\ rd \in [Readers -> Reader] /\ rd[r].pc = "copy" /\ lock = r /\ mapped \in Inodes
      /\ rd[r].ino = mapped /\ rd[r].tries < MaxTries /\ rd[r].k <= Words
      /\ Words \in Nat \ {0} /\ TypeOK /\ ReaderInv
  BY DEF IInv, TypeOK, ReaderInv, ReaderOK, Held, CopyWord, HistoryAssumption
<1>1. n \in Cells /\ n \in Nat /\ n + 1 \in 1..Words + 1 /\ mem[mapped].cell[n] \in 0..MaxUpdates
      /\ rd[r].before \in Nat /\ rd[r].copy \in [Cells -> 0..MaxUpdates]
  <2>1. rd[r] \in Reader
    BY <1>0
  <2>2. n \in 1..Words + 1 /\ rd[r].before \in Nat /\ rd[r].copy \in [Cells -> 0..MaxUpdates]
    BY <2>1 DEF Reader
  <2>3. n \in Cells /\ n \in Nat /\ n + 1 \in 1..Words + 1
    BY <1>0, <2>2 DEF Cells
  <2> QED
    BY <1>0, <2>2, <2>3, Parts
<1>2. UNCHANGED writerVars /\ UNCHANGED <<mapped, lock>>
  BY DEF CopyWord
<1>3. rd' = [rd EXCEPT ![r].copy[n] = mem[mapped].cell[n], ![r].k = n + 1, ![r].pc = p]
  BY DEF CopyWord
<1> DEFINE f == [rd EXCEPT ![r].copy[n] = mem[mapped].cell[n]]
           g == [f EXCEPT ![r].k = n + 1]
<1>4. f \in [Readers -> Reader]
  BY <1>0, <1>1, ReaderFields
<1>5. g \in [Readers -> Reader]
  BY <1>1, <1>4, ReaderFields
<1>6. rd' = [g EXCEPT ![r].pc = p]
  BY <1>3
<1>7. rd' \in [Readers -> Reader]
  BY <1>5, <1>6, ReaderFields
<1>8. /\ rd'[r].copy = [rd[r].copy EXCEPT ![n] = mem[mapped].cell[n]]
      /\ rd'[r].k = n + 1 /\ rd'[r].pc = p /\ rd'[r].ino = rd[r].ino
      /\ rd'[r].tries = rd[r].tries /\ rd'[r].before = rd[r].before
      /\ \A q \in Readers \ {r} : rd'[q] = rd[q]
  BY <1>0, <1>3 DEF Reader
<1>9. ReaderOK(r)'
  BY <1>0, <1>1, <1>2, <1>8 DEF ReaderOK, Held
<1>10. ASSUME Restart # "zero" PROVE CopyOK(r)'
  <2>1. CopyOK(r)
    BY <1>10 DEF IInv, CopyInv
  <2>2. ASSUME mem[mapped].seq = rd[r].before, NEW k \in Cells, k < n + 1
        PROVE  rd'[r].copy[k] = mem[mapped].cell[k]
    <3>1. k = n \/ k < n
      BY <1>1, <2>2 DEF Cells
    <3> QED
      BY <1>0, <1>1, <1>8, <2>1, <2>2, <3>1 DEF CopyOK
  <2> QED
    BY <1>0, <1>2, <1>8, <2>1, <2>2 DEF CopyOK, writerVars
<1> QED
  BY <1>0, <1>2, <1>7, <1>8, <1>9, <1>10, OthersKept, WriterKept DEF IInv, TypeOK, writerVars

LEMMA CheckStep ==
  ASSUME HistoryAssumption, IInv, NEW r \in Readers, Check(r)
  PROVE  IInv'
<1>0. /\ rd \in [Readers -> Reader] /\ rd[r].pc = "check" /\ lock = r /\ mapped \in Inodes
      /\ rd[r].ino = mapped /\ rd[r].tries < MaxTries /\ rd[r].k = Words + 1
      /\ Words \in Nat \ {0} /\ TypeOK /\ ReaderInv
  BY DEF IInv, TypeOK, ReaderInv, ReaderOK, Held, Check, HistoryAssumption
<1>1. UNCHANGED writerVars /\ UNCHANGED mapped
  BY DEF Check
<1>2. CASE Again(r)
  BY <1>0, <1>1, <1>2, AgainEffect, OthersKept, WriterKept DEF IInv, TypeOK, writerVars, Held
<1>3. CASE ~Again(r)
  <2>1. mem[mapped].seq = rd[r].before /\ lock' = "free" /\ rd' = [rd EXCEPT ![r].pc = "done"]
    BY <1>3 DEF Check
  <2>2. rd' \in [Readers -> Reader]
    BY <1>0, <2>1, ReaderFields
  <2>3. /\ rd'[r].pc = "done" /\ rd'[r].tries = rd[r].tries /\ rd'[r].copy = rd[r].copy
        /\ \A q \in Readers \ {r} : rd'[q] = rd[q]
    BY <1>0, <2>1 DEF Reader
  <2>4. ReaderOK(r)'
    BY <1>0, <2>3 DEF ReaderOK, Held
  <2>5. ASSUME Restart # "zero" PROVE CopyOK(r)'
    <3>1. CopyOK(r) /\ ~Odd(mem[mapped].seq)
      BY <1>0, <2>1, <2>5 DEF IInv, CopyInv, CopyOK
    <3>2. Uniform(mem[mapped].cell)
      BY <1>0, <2>5, <3>1 DEF IInv, EvenIsWhole
    <3>3. \A k \in Cells : rd[r].copy[k] = mem[mapped].cell[k]
      BY <1>0, <2>1, <3>1 DEF CopyOK, Cells
    <3>4. Uniform(rd[r].copy)
      BY <1>0, <3>2, <3>3 DEF Uniform, Cells
    <3> QED
      BY <2>3, <3>4 DEF CopyOK, Uniform
  <2> QED
    BY <1>0, <1>1, <2>1, <2>2, <2>3, <2>4, <2>5, OthersKept, WriterKept DEF IInv, TypeOK, writerVars
<1> QED
  BY <1>2, <1>3

LEMMA OpenStep ==
  ASSUME HistoryAssumption, IInv, NEW r \in Readers, Open(r)
  PROVE  IInv'
<1>0. /\ rd \in [Readers -> Reader] /\ rd[r].pc = "open" /\ lock = r /\ rd[r].tries < MaxTries
      /\ TypeOK /\ ReaderInv /\ path \in Inodes \cup {0} /\ mapped' = path
  BY DEF IInv, TypeOK, ReaderInv, ReaderOK, Held, Open
<1>1. UNCHANGED writerVars
  BY DEF Open
<1>2. CASE path = 0
  <2>1. lock' = "free" /\ rd' = [rd EXCEPT ![r] = Resting]
    BY <1>2 DEF Open
  <2> QED
    BY <1>0, <1>1, <2>1, RestKept, OthersKept, WriterKept DEF IInv, TypeOK, writerVars
<1>3. CASE path # 0
  <2>1. UNCHANGED lock /\ rd' = [rd EXCEPT ![r].pc = "load", ![r].ino = path]
    BY <1>3 DEF Open
  <2> DEFINE f == [rd EXCEPT ![r].pc = "load"]
  <2>2. f \in [Readers -> Reader]
    BY <1>0, ReaderFields
  <2>3. rd' = [f EXCEPT ![r].ino = path]
    BY <2>1
  <2>4. rd' \in [Readers -> Reader]
    BY <1>0, <2>2, <2>3, ReaderFields
  <2>5. /\ rd'[r].pc = "load" /\ rd'[r].ino = path /\ rd'[r].tries = rd[r].tries
        /\ \A q \in Readers \ {r} : rd'[q] = rd[q]
    BY <1>0, <2>1 DEF Reader
  <2>6. ReaderOK(r)' /\ CopyOK(r)'
    BY <1>0, <1>3, <2>1, <2>5 DEF ReaderOK, CopyOK, Held
  <2> HIDE DEF f
  <2> QED
    BY <1>0, <1>1, <2>1, <2>4, <2>5, <2>6, OthersKept, WriterKept DEF IInv, TypeOK, writerVars
<1> QED
  BY <1>2, <1>3

LEMMA TakeStep ==
  ASSUME HistoryAssumption, IInv, NEW r \in Readers, TakeLock(r)
  PROVE  IInv'
<1>0. /\ rd \in [Readers -> Reader] /\ lock = "free" /\ lock' = r /\ TypeOK /\ ReaderInv
      /\ UNCHANGED writerVars /\ UNCHANGED mapped
      /\ rd' = [rd EXCEPT ![r] = [Resting EXCEPT !.pc = "open"]]
  BY DEF IInv, TypeOK, TakeLock
<1> DEFINE o == [Resting EXCEPT !.pc = "open"]
<1>1. o \in Reader /\ o.pc = "open" /\ o.tries = 0
  BY RestingType
<1> HIDE DEF o
<1>2. rd' \in [Readers -> Reader] /\ rd'[r] = o /\ \A q \in Readers \ {r} : rd'[q] = rd[q]
  BY <1>0, <1>1 DEF o
<1>3. ReaderOK(r)' /\ CopyOK(r)'
  <2>1. rd'[r].pc = "open" /\ rd'[r].tries < MaxTries
    BY <1>1, <1>2 DEF HistoryAssumption
  <2> QED
    BY <1>0, <2>1 DEF ReaderOK, CopyOK, Held
<1> QED
  BY <1>0, <1>2, <1>3, OthersKept, WriterKept DEF IInv, TypeOK, writerVars

LEMMA UseStep ==
  ASSUME HistoryAssumption, IInv, NEW r \in Readers, Use(r)
  PROVE  IInv'
<1>1. /\ TypeOK /\ ReaderInv /\ UNCHANGED writerVars /\ UNCHANGED <<mapped, lock>>
      /\ rd' = [rd EXCEPT ![r] = Resting]
  BY DEF IInv, Use
<1> QED
  BY <1>1, RestKept, OthersKept, WriterKept DEF IInv, TypeOK, writerVars

-----------------------------------------------------------------------------
(* The invariant, and what it says of the snapshots.                       *)
LEMMA StepInv ==
  ASSUME HistoryAssumption, IInv, [Next]_vars
  PROVE  IInv'
<1>1. CASE Writing
  BY <1>1, WritingStep
<1>2. ASSUME NEW r \in Readers, TakeLock(r) \/ Read(r) PROVE IInv'
  BY <1>2, OpenStep, LoadStep, CopyStep, CheckStep, UseStep, TakeStep DEF Read
<1>3. CASE UNCHANGED vars
  BY <1>3 DEF vars, IInv, TypeOK, WriterInv, EvenIsWhole, ReaderInv, CopyInv, ReaderOK, CopyOK,
              Held, Uniform, Seq
<1> QED
  BY <1>1, <1>2, <1>3 DEF Next, Writing

LEMMA InvSays ==
  ASSUME HistoryAssumption, IInv
  PROVE  /\ Published /\ MappingHeld /\ TypeOK
         /\ Restart # "zero" => Coherent
<1>1. Published
  BY Parts DEF IInv, WriterInv, Published, Uniform
<1>2. MappingHeld
  BY DEF IInv, ReaderInv, ReaderOK, MappingHeld
<1>3. Restart # "zero" => Coherent
  BY DEF IInv, CopyInv, CopyOK, Coherent, Uniform
<1> QED
  BY <1>1, <1>2, <1>3 DEF IInv

(* Whatever is killed, restarted or removed, and however many threads      *)
(* read: a writer between two updates has a whole snapshot under an even   *)
(* number, and no thread copies from pages that another one has unmapped   *)
(* (motion_metadata_levels.c, motion_metadata_events.c, motion_map_y623.c).*)
THEOREM SnapshotsPublished ==
  ASSUME HistoryAssumption
  PROVE  Spec => [](TypeOK /\ Published /\ MappingHeld)
<1>1. Init => IInv
  BY InitInv
<1>2. IInv /\ [Next]_vars => IInv'
  BY StepInv
<1>3. IInv => TypeOK /\ Published /\ MappingHeld
  BY InvSays
<1> QED
  BY <1>1, <1>2, <1>3, PTL DEF Spec

(* A snapshot that a reader of the level or the event history accepts is   *)
(* one snapshot: no word of it is of another update.                       *)
THEOREM CopiesCoherent ==
  ASSUME HistoryAssumption, Restart # "zero"
  PROVE  Spec => []Coherent
<1>1. Init => IInv
  BY InitInv
<1>2. IInv /\ [Next]_vars => IInv'
  BY StepInv
<1>3. IInv => Coherent
  BY InvSays
<1> QED
  BY <1>1, <1>2, <1>3, PTL DEF Spec
=============================================================================
