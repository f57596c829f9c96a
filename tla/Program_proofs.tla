--------------------------- MODULE Program_proofs ---------------------------
(***************************************************************************)
(* Theorems about Program, for every set of trace files, page size, radix, *)
(* sizes of the blocks and cap on the bytes: however far memsim got, and   *)
(* whatever failed, nothing is left behind that should not be.             *)
(***************************************************************************)
EXTENDS Program, PageTable_proofs

-----------------------------------------------------------------------------
(* Resources *)

LEMMA ResourcesAre ==
  ToSet(Resources) = {"simulation", "trace", "file", "physmem", "swap", "swapmap",
                      "words", "swapfile", "coremap", "frames"}
  BY DEF ToSet, Resources

LEMMA PartsAre ==
  /\ DOMAIN Parts = {"trace", "physmem", "coremap", "swap"}
  /\ Parts["trace"] = {"trace", "file"}
  /\ Parts["physmem"] = {"physmem"}
  /\ Parts["coremap"] = {"coremap", "frames"}
  /\ Parts["swap"] = {"swap", "swapmap", "words", "swapfile"}
  BY DEF Parts

(* Acquired in order, as far as CSC369_SimulationCreate has got.           *)
InOrder(h) ==
  /\ "trace" \in h => "simulation" \in h
  /\ "file" \in h => "trace" \in h
  /\ "physmem" \in h => "file" \in h
  /\ "swap" \in h => "physmem" \in h
  /\ "swapmap" \in h => "swap" \in h
  /\ "words" \in h => "swapmap" \in h
  /\ "swapfile" \in h => "words" \in h
  /\ "coremap" \in h => "swapfile" \in h
  /\ "frames" \in h => "coremap" \in h

(* What a Destroy function releases is there as a whole or not at all.     *)
Whole(h) == \A c \in DOMAIN Parts : Parts[c] \subseteq h \/ Parts[c] \cap h = {}

LEMMA AcquiresIs ==
  ASSUME NEW r \in ToSet(Resources), Acquires(r)
  PROVE  /\ r \notin held
         /\ r = "trace" => "simulation" \in held
         /\ r = "file" => "trace" \in held
         /\ r = "physmem" => "file" \in held
         /\ r = "swap" => "physmem" \in held
         /\ r = "swapmap" => "swap" \in held
         /\ r = "words" => "swapmap" \in held
         /\ r = "swapfile" => "words" \in held
         /\ r = "coremap" => "swapfile" \in held
         /\ r = "frames" => "coremap" \in held
<1>1. DOMAIN Resources = 1 .. 10
  BY DEF Resources
<1>2. PICK n \in 1 .. 10 : /\ Resources[n] = r /\ r \notin held
                           /\ \A m \in 1 .. n - 1 : Resources[m] \in held
  BY <1>1 DEF Acquires
<1>3. /\ Resources[1] = "simulation" /\ Resources[2] = "trace" /\ Resources[3] = "file"
      /\ Resources[4] = "physmem" /\ Resources[5] = "swap" /\ Resources[6] = "swapmap"
      /\ Resources[7] = "words" /\ Resources[8] = "swapfile" /\ Resources[9] = "coremap"
      /\ Resources[10] = "frames"
  BY DEF Resources
<1>4. n = 1 \/ n = 2 \/ n = 3 \/ n = 4 \/ n = 5 \/ n = 6 \/ n = 7 \/ n = 8 \/ n = 9
      \/ n = 10
  OBVIOUS
<1>5. n > 1 => Resources[n - 1] \in held
  BY <1>2
<1> QED
  BY <1>2, <1>3, <1>4, <1>5

LEMMA AcquireKeepsOrder ==
  ASSUME NEW r \in ToSet(Resources), Acquires(r), InOrder(held)
  PROVE  InOrder(held \cup {r})
  BY AcquiresIs, ResourcesAre DEF InOrder

LEMMA FailureKeepsWhole ==
  ASSUME NEW r \in ToSet(Resources), Acquires(r), InOrder(held),
         held \subseteq ToSet(Resources), NEW h,
         h = held \ UNION {Parts[c] : c \in {d \in DOMAIN Parts : r \in Parts[d]}}
  PROVE  Whole(h) /\ (r = "simulation" => h = {})
<1> DEFINE Gone(x) == \E c \in DOMAIN Parts : r \in Parts[c] /\ x \in Parts[c]
<1>1. \A x : x \in h <=> x \in held /\ ~Gone(x)
  OBVIOUS
<1>2. ASSUME NEW c \in DOMAIN Parts, r \in Parts[c]
      PROVE  Parts[c] \cap h = {}
  BY <1>1, <1>2
<1>3. ASSUME NEW c \in DOMAIN Parts, r \notin Parts[c]
      PROVE  \A x \in Parts[c] : x \in h <=> x \in held
  BY <1>1, <1>3, PartsAre
<1>4. ASSUME NEW c \in DOMAIN Parts, r \notin Parts[c]
      PROVE  Parts[c] \subseteq held \/ Parts[c] \cap held = {}
  BY <1>4, PartsAre, AcquiresIs, ResourcesAre DEF InOrder
<1>5. r = "simulation" => held = {}
  BY AcquiresIs, ResourcesAre DEF InOrder
<1> QED
  BY <1>1, <1>2, <1>3, <1>4, <1>5 DEF Whole

-----------------------------------------------------------------------------
(* Where main is, what it holds and what the handler can reach.            *)
ControlInv ==
  /\ pc \in {"args", "create", "mm", "created", "run", "execute", "destroy",
             "leakcheck", "handler", "returned", "exited", "killed"}
  /\ held \subseteq ToSet(Resources)
  /\ simulation \in {"null", "set", "dangling"}
  /\ pc = "args" => held = {}
  /\ pc = "create" => InOrder(held)
  /\ pc \in {"args", "create", "mm", "created"} => simulation = "null" /\ stdin
  /\ pc \in {"mm", "created", "run", "execute"} => Complete
  /\ pc \in {"run", "execute"} => simulation = "set"
  /\ pc = "destroy" => simulation \in {"null", "set"} /\ Whole(held)
  /\ pc = "leakcheck" => simulation = "dangling"
  /\ pc = "returned" => held = {}
  /\ pc = "exited" => "swapfile" \notin held
  /\ pc = "killed" /\ simulation # "null" => "swapfile" \notin held
  /\ simulation = "set" => stdin /\ ("swapfile" \in held => "swap" \in held)
  /\ simulation = "dangling" => stdin /\ held = {}

LEMMA ControlInit == ProgInit => ControlInv
  BY DEF ProgInit, ControlInv

LEMMA CreationKeeps ==
  ASSUME ControlInv
  PROVE  /\ CreateSimulationFromArgs => ControlInv'
         /\ \A r \in ToSet(Resources) : Acquire(r) \/ AcquireFails(r) => ControlInv'
         /\ MMCreate \/ MMCreateTable \/ AssignSimulation => ControlInv'
<1>1. ASSUME CreateSimulationFromArgs PROVE ControlInv'
  BY <1>1 DEF CreateSimulationFromArgs, ControlInv, InOrder
<1>2. ASSUME NEW r \in ToSet(Resources), Acquire(r) PROVE ControlInv'
  <2>1. InOrder(held')
    BY <1>2, AcquireKeepsOrder DEF Acquire, ControlInv
  <2> QED
    BY <1>2, <2>1 DEF Acquire, ControlInv
<1>3. ASSUME NEW r \in ToSet(Resources), AcquireFails(r) PROVE ControlInv'
  <2>1. Whole(held') /\ (r = "simulation" => held' = {})
    BY <1>3, FailureKeepsWhole DEF AcquireFails, ControlInv
  <2>2. held' \subseteq held
    BY <1>3 DEF AcquireFails
  <2> QED
    BY <1>3, <2>1, <2>2 DEF AcquireFails, ControlInv
<1>4. Complete => Whole(held)
  BY ResourcesAre, PartsAre DEF Complete, Whole
<1>5. ASSUME MMCreate PROVE ControlInv'
  BY <1>4, <1>5 DEF MMCreate, ControlInv, Complete
<1>6. ASSUME MMCreateTable PROVE ControlInv'
  <2>1. pc = "mm" /\ pc' \in {"created", "destroy", "handler"}
    BY <1>6 DEF MMCreateTable, CSC369_PageTableCreate
  <2>2. UNCHANGED <<held, simulation, stdin>>
    BY <1>6 DEF MMCreateTable
  <2> QED
    BY <1>4, <2>1, <2>2 DEF ControlInv, Complete
<1>7. ASSUME AssignSimulation PROVE ControlInv'
  BY <1>7, ResourcesAre DEF AssignSimulation, ControlInv, Complete
<1> QED
  BY <1>1, <1>2, <1>3, <1>5, <1>6, <1>7

LEMMA RunKeeps ==
  ASSUME ControlInv
  PROVE  SimulationRun \/ ExecuteMemInstruction \/ Signal => ControlInv'
<1>1. Complete => Whole(held)
  BY ResourcesAre, PartsAre DEF Complete, Whole
<1>2. ASSUME SimulationRun PROVE ControlInv'
  BY <1>1, <1>2 DEF SimulationRun, ControlInv, Complete
<1>3. ASSUME ExecuteMemInstruction PROVE ControlInv'
  BY <1>3 DEF ExecuteMemInstruction, ControlInv, Complete
<1>4. ASSUME Signal PROVE ControlInv'
  BY <1>4 DEF Signal, ControlInv, Ended
<1> QED
  BY <1>2, <1>3, <1>4

LEMMA DestructionKeeps ==
  ASSUME ControlInv
  PROVE  /\ \A c \in DOMAIN Parts : DestroyPart(c) => ControlInv'
         /\ MMDestroy \/ DestroyDone \/ LeakCheck => ControlInv'
<1>1. ASSUME NEW c \in DOMAIN Parts, DestroyPart(c) PROVE ControlInv'
  <2>1. pc = "destroy" /\ held' = held \ Parts[c] /\ Whole(held)
    BY <1>1 DEF DestroyPart, Destroys, ControlInv
  <2>2. Whole(held')
    <3>1. \A d \in DOMAIN Parts : d # c => Parts[d] \cap Parts[c] = {}
      BY PartsAre
    <3>2. ASSUME NEW d \in DOMAIN Parts
          PROVE  Parts[d] \subseteq held' \/ Parts[d] \cap held' = {}
      <4>1. CASE d = c
        BY <2>1, <4>1
      <4>2. CASE d # c
        BY <2>1, <3>1, <4>2 DEF Whole
      <4> QED
        BY <4>1, <4>2
    <3> QED
      BY <3>2 DEF Whole
  <2>3. ("swapfile" \in held => "swap" \in held) => ("swapfile" \in held' => "swap" \in held')
    BY <2>1, PartsAre
  <2> QED
    BY <1>1, <2>1, <2>2, <2>3 DEF DestroyPart, ControlInv
<1>2. ASSUME MMDestroy PROVE ControlInv'
  BY <1>2 DEF MMDestroy, ControlInv
<1>3. ASSUME DestroyDone PROVE ControlInv'
  <2>1. held' = {}
    <3>1. \A c \in DOMAIN Parts : Parts[c] \cap held = {}
      BY <1>3, PartsAre DEF DestroyDone, AllDestroyed, ControlInv, Whole
    <3> QED
      BY <1>3, <3>1, PartsAre, ResourcesAre DEF DestroyDone, ControlInv
  <2> QED
    BY <1>3, <2>1 DEF DestroyDone, ControlInv
<1>4. ASSUME LeakCheck PROVE ControlInv'
  BY <1>4 DEF LeakCheck, ControlInv
<1> QED
  BY <1>1, <1>2, <1>3, <1>4

LEMMA ControlNext == ControlInv /\ [ProgNext]_progVars => ControlInv'
<1> SUFFICES ASSUME ControlInv, [ProgNext]_progVars PROVE ControlInv'
  OBVIOUS
<1>1. ASSUME HandleFatalSignal PROVE ControlInv'
  BY <1>1 DEF HandleFatalSignal, SwapValid, ControlInv
<1>2. ASSUME UNCHANGED progVars PROVE ControlInv'
  BY <1>2 DEF progVars, ControlInv, Complete
<1> QED
  BY <1>1, <1>2, CreationKeeps, RunKeeps, DestructionKeeps
     DEF ProgNext, MainNext, ProgTerminated

THEOREM ControlCorrect == ProgSpec => []ControlInv
  BY ControlInit, ControlNext, PTL DEF ProgSpec

(* The handler of fatal signals closes and removes the swap file through   *)
(* the global simulation, and CSC369_SimulationDestroy does: however the   *)
(* process ends, the file is left only by a signal that came before main   *)
(* had stored the simulation.                                              *)
THEOREM SwapFileRemovedCorrect == ProgSpec => []SwapFileRemoved
<1>1. ControlInv => SwapFileRemoved
  BY DEF ControlInv, SwapFileRemoved, Ended
<1> QED
  BY <1>1, ControlCorrect, PTL

-----------------------------------------------------------------------------
(* The trace *)

TraceInv ==
  file \in Files /\ pos \in Nat /\ buffer \in TraceTexts /\ delivered \in Seq(Addresses)

LEMMA ParseKeeps ==
  ASSUME NEW text \in TraceTexts, Parse(text), delivered \in Seq(Addresses)
  PROVE  /\ delivered' \in Seq(Addresses)
         /\ result' = 0 => delivered' # <<>> /\ Last(delivered') \in Addresses
<1>1. CASE text.kind = "access"
  <2>1. text.va \in Addresses
    BY <1>1 DEF TraceTexts, Access, Comment, Invalid
  <2>2. delivered' = Append(delivered, text.va)
    BY <1>1 DEF Parse
  <2> DEFINE va == text.va
             d == Append(delivered, va)
  <2>3. d \in Seq(Addresses) /\ Len(d) = Len(delivered) + 1 /\ d[Len(delivered) + 1] = va
        /\ Len(delivered) \in Nat
    BY <2>1
  <2>4. d # <<>> /\ d[Len(d)] = va
    BY <2>3
  <2> QED
    BY <2>1, <2>2, <2>3, <2>4 DEF Last
<1>2. CASE text.kind # "access"
  <2>1. result' = -1 /\ delivered' = delivered
    BY <1>2 DEF Parse
  <2> QED
    BY <2>1
<1> QED
  BY <1>1, <1>2

(* The texts of a file, line by line.                                      *)
LineByLine(g, seqs, n) ==
  g[1] = seqs[1] /\ \A i \in 2 .. n : g[i] = g[i - 1] \o seqs[i]

LEMMA FlattenSteps ==
  ASSUME NEW g, NEW seqs, NEW n \in Nat \ {0}, Flattens(g, seqs, n)
  PROVE  LineByLine(g, seqs, n)
<1>1. g = [i \in 1 .. n |-> IF i = 1 THEN seqs[i] ELSE g[i - 1] \o seqs[i]]
  BY DEF Flattens
<1>2. ASSUME NEW i \in 1 .. n PROVE g[i] = IF i = 1 THEN seqs[i] ELSE g[i - 1] \o seqs[i]
  BY <1>1, Zenon
<1>3. 1 \in 1 .. n /\ \A i \in 2 .. n : i \in 1 .. n /\ i # 1
  OBVIOUS
<1> QED
  BY <1>2, <1>3 DEF LineByLine

LEMMA FlattenTyped ==
  ASSUME NEW S, NEW seqs \in Seq(Seq(S))
  PROVE  FlattenSeq(seqs) \in Seq(S)
<1> DEFINE n == Len(seqs)
<1>1. n \in Nat /\ \A i \in 1 .. n : seqs[i] \in Seq(S)
  OBVIOUS
<1>2. CASE n = 0
  <2>1. FlattenSeq(seqs) = seqs /\ seqs = <<>>
    BY <1>2 DEF FlattenSeq
  <2> QED
    BY <2>1
<1>3. CASE n # 0
  <2>1. PICK g : Flattens(g, seqs, n) /\ FlattenSeq(seqs) = g[n]
    BY <1>1, <1>3, FlattenIs
  <2>2. g[1] = seqs[1] /\ \A i \in 2 .. n : g[i] = g[i - 1] \o seqs[i]
    <3> HIDE DEF n
    <3>1. LineByLine(g, seqs, n)
      BY <1>1, <1>3, <2>1, FlattenSteps
    <3> QED
      BY <3>1 DEF LineByLine
  <2> DEFINE T == {i \in 1 .. n : g[i] \notin Seq(S)}
  <2>3. ASSUME T # {} PROVE FALSE
    <3>1. PICK j \in T : \A y \in T : j <= y
      <4>1. T \in SUBSET Nat
        BY <1>1
      <4> HIDE DEF T
      <4> QED
        BY <2>3, <4>1, LeastNat
    <3>2. j # 1
      <4>1. g[1] \in Seq(S)
        BY <1>1, <1>3, <2>2
      <4> QED
        BY <3>1, <4>1
    <3>3. j \in 2 .. n /\ j - 1 \in 1 .. n /\ j - 1 < j
      BY <1>1, <3>1, <3>2
    <3>4. g[j - 1] \in Seq(S) /\ seqs[j] \in Seq(S)
      BY <1>1, <3>1, <3>3
    <3>5. g[j] \in Seq(S)
      <4>1. g[j] = g[j - 1] \o seqs[j]
        BY <2>2, <3>3
      <4> QED
        BY <3>4, <4>1
    <3> QED
      BY <3>1, <3>5
  <2>4. n \in 1 .. n
    BY <1>1, <1>3
  <2> QED
    BY <2>1, <2>3, <2>4
<1> QED
  BY <1>2, <1>3

LEMMA FileIs ==
  ASSUME NEW f \in Files
  PROVE  /\ f.lines \in Seq(Seq(TraceTexts)) /\ f.terminated \in BOOLEAN
         /\ Texts(f) \in Seq(TraceTexts)
<1>1. f.lines \in Seq(Seq(TraceTexts)) /\ f.terminated \in BOOLEAN
  BY FilesAssumption
<1> QED
  BY <1>1, FlattenTyped DEF Texts

LEMMA TraceKeeps ==
  ASSUME TraceInv, CSC369_TraceRead
  PROVE  TraceInv' /\ (result' = 0 => delivered' # <<>> /\ Last(delivered') \in Addresses)
<1> DEFINE texts == Texts(file)
           n == Len(texts)
<1>1. texts \in Seq(TraceTexts) /\ n \in Nat /\ pos \in Nat
  BY FileIs DEF TraceInv
<1>2. \A q \in 1 .. n : texts[q] \in TraceTexts
  BY <1>1
<1>3. Invalid \in TraceTexts
  BY DEF TraceTexts
<1> HIDE DEF texts, n
<1>4. CASE ReadText
  <2>1. PICK q \in pos + 1 .. n + 1 :
          LET last == IF q > n THEN q - 1 ELSE q
              feof == q > n \/ (q = n /\ ~file.terminated)
          IN  /\ pos' = last
              /\ buffer' = IF last > pos THEN texts[last] ELSE buffer
              /\ Parse(IF feof THEN Invalid ELSE texts[q])
              /\ file' = file
    BY <1>4 DEF ReadText, texts, n
  <2> DEFINE last == IF q > n THEN q - 1 ELSE q
             text == IF q > n \/ (q = n /\ ~file.terminated) THEN Invalid ELSE texts[q]
  <2>2. last \in Nat /\ (last > pos => last \in 1 .. n) /\ (~(q > n) => q \in 1 .. n)
    BY <1>1
  <2>3. text \in TraceTexts
    BY <1>2, <1>3, <2>2
  <2>4. pos' = last /\ buffer' = (IF last > pos THEN texts[last] ELSE buffer)
        /\ Parse(text) /\ file' = file
    BY <2>1
  <2> HIDE DEF last, text
  <2> QED
    BY <1>2, <2>2, <2>3, <2>4, ParseKeeps DEF TraceInv
<1>5. CASE ReadError
  <2>1. PICK q \in pos .. n :
          /\ pos' = q /\ buffer' = IF q > pos THEN texts[q] ELSE buffer
          /\ Parse(buffer') /\ file' = file
    BY <1>5 DEF ReadError, texts, n
  <2>2. q \in Nat /\ (q > pos => q \in 1 .. n)
    BY <1>1
  <2>3. buffer' \in TraceTexts
    BY <1>2, <2>1, <2>2 DEF TraceInv
  <2> DEFINE text == buffer'
  <2>4. text \in TraceTexts /\ Parse(text)
    BY <2>1, <2>3
  <2> HIDE DEF text
  <2>5. delivered' \in Seq(Addresses)
        /\ (result' = 0 => delivered' # <<>> /\ Last(delivered') \in Addresses)
    BY <2>4, ParseKeeps DEF TraceInv
  <2> QED
    BY <2>1, <2>2, <2>3, <2>5 DEF TraceInv
<1> QED
  BY <1>4, <1>5 DEF CSC369_TraceRead

-----------------------------------------------------------------------------
(* The heap *)

(* The memory manager's own block, and the table below it: all of it is    *)
(* there or none, unless the creation of the table failed.  Of kmalloc     *)
(* nothing is known once the handler is entered.                           *)
HeapInv ==
  /\ pc \notin {"handler", "exited", "killed"} => MallocInv(km) /\ km.ok = TRUE
  /\ touched \in SUBSET PageNumbers
  /\ phase \in {"new", "ready", "failed", "crashed", "destroyed"}
  /\ phase = "new" => touched = {}
  /\ pc \in {"args", "create"} => phase = "new"
  /\ pc = "mm" => phase = "new" /\ heap = {MM}
  /\ pc \in {"created", "run", "execute"} => phase = "ready"
  /\ pc = "destroy" => phase # "crashed"
  /\ pc \in {"leakcheck", "returned"} => phase \in {"new", "failed", "destroyed"}
  /\ phase = "ready" => heap = {MM} \cup Tree(touched)
  /\ phase = "failed" => heap \subseteq {MM, Block("table", <<>>)}
  /\ phase = "destroyed" => heap = {}
  /\ pc \in {"args", "create", "destroy", "leakcheck", "returned"} /\ phase = "new" =>
       heap = {}
  /\ pc = "execute" => Last(delivered) \in Addresses

LEMMA HeapInit == ProgInit => HeapInv
  BY MallocInitInv DEF ProgInit, PTInit, HeapInv, heap, CSC369_MallocInit

LEMMA MMIs ==
  /\ MM \in AllBlocks /\ MM.kind = "mm" /\ MM.path = <<>>
  /\ \A t \in SUBSET PageNumbers : MM \notin Tree(t)
  /\ Owner(MM) = Block("pte", <<>>)
<1>1. <<>> \in Seq(Nat)
  OBVIOUS
<1>2. MM \in AllBlocks /\ MM.kind = "mm" /\ MM.path = <<>>
  BY <1>1, BlockIs DEF MM, BlockKinds
<1>3. Owner(MM) = Block("pte", <<>>)
  <2> DEFINE root == <<>>
  <2> HIDE DEF root
  <2>1. Owner(Block("mm", root)) = Block("pte", root)
    BY OwnerIs
  <2> QED
    BY <2>1 DEF MM, root
<1> QED
  BY <1>2, <1>3, TreeFacts

LEMMA MMCreateKeeps == HeapInv /\ MMCreate => HeapInv'
<1> SUFFICES ASSUME HeapInv, MMCreate PROVE HeapInv'
  OBVIOUS
<1>1. pc = "create" /\ phase = "new" /\ heap = {} /\ UNCHANGED <<touched, phase>>
  BY DEF MMCreate, HeapInv
<1>2. CASE WithinMax(km, <<MM>>) /\ km' = CSC369_malloc(km, <<MM>>) /\ pc' = "mm"
  <2> DEFINE s == <<MM>>
  <2>1. Different(s) /\ ToSet(s) = {MM}
    BY MMIs, OneBlock
  <2>2. WithinMax(km, s) /\ km' = CSC369_malloc(km, s)
    BY <1>2
  <2>3. ToSet(s) \cap LiveBlocks(km) = {}
    BY <1>1 DEF heap
  <2> HIDE DEF s
  <2>4. MallocInv(km') /\ km'.ok = TRUE /\ heap' = {MM}
    BY <1>1, <2>1, <2>2, <2>3, MallocKeeps DEF heap, HeapInv
  <2> QED
    BY <1>1, <1>2, <2>4 DEF HeapInv
<1>3. CASE pc' = "destroy" /\ km' = km
  BY <1>1, <1>3 DEF HeapInv, heap
<1>4. CASE pc' = "handler"
  BY <1>1, <1>4 DEF HeapInv
<1> QED
  BY <1>2, <1>3, <1>4 DEF MMCreate

LEMMA MMCreateTableKeeps == HeapInv /\ MMCreateTable => HeapInv'
<1> SUFFICES ASSUME HeapInv, MMCreateTable PROVE HeapInv'
  OBVIOUS
<1>1. /\ pc = "mm" /\ phase = "new" /\ heap = {MM} /\ touched = {}
      /\ CSC369_PageTableCreate
  BY DEF MMCreateTable, HeapInv
<1>2. heap \cap TableSet(<<>>) = {}
  BY <1>1, MMIs, BlockIs DEF TableSet
<1>3. /\ touched' = touched
      /\ \/ phase' = "crashed"
         \/ /\ MallocInv(km') /\ km'.ok = TRUE
            /\ \/ phase' = "ready" /\ heap' = heap \cup TableSet(<<>>)
               \/ phase' = "failed" /\ heap' \subseteq heap \cup {Block("table", <<>>)}
  BY <1>1, <1>2, CreateKeeps DEF HeapInv
<1>4. Tree({}) = TableSet(<<>>)
  BY DEF Tree
<1>5. CASE phase' = "crashed"
  <2>1. pc' = "handler"
    BY <1>5 DEF MMCreateTable
  <2> QED
    BY <1>1, <1>3, <1>5, <2>1 DEF HeapInv
<1>6. CASE phase' = "ready"
  <2>1. pc' = "created"
    BY <1>6 DEF MMCreateTable
  <2> QED
    BY <1>1, <1>3, <1>4, <1>6, <2>1 DEF HeapInv
<1>7. CASE phase' = "failed"
  <2>1. pc' = "destroy"
    BY <1>7 DEF MMCreateTable
  <2> QED
    BY <1>1, <1>3, <1>7, <2>1 DEF HeapInv
<1> QED
  BY <1>3, <1>5, <1>6, <1>7

LEMMA ExecuteKeeps == HeapInv /\ ExecuteMemInstruction => HeapInv'
<1> SUFFICES ASSUME HeapInv, ExecuteMemInstruction PROVE HeapInv'
  OBVIOUS
<1> DEFINE va == Last(delivered)
<1>1. /\ phase = "ready" /\ heap = {MM} \cup Tree(touched)
      /\ touched \in SUBSET PageNumbers /\ va \in Addresses
      /\ MallocInv(km) /\ km.ok = TRUE
  BY DEF ExecuteMemInstruction, HeapInv
<1>2. TreeBuilt
  BY <1>1, MMIs, TreeFacts DEF TreeBuilt
<1>3. CASE (CSC369_PageTableAllocate(va) /\ pc' = "run")
           \/ (AllocateFails(va) /\ pc' = "handler")
  <2> HIDE DEF va
  <2>1. CSC369_PageTableAllocate(va) =>
             /\ MallocInv(km') /\ km'.ok = TRUE
             /\ touched' \in SUBSET PageNumbers
             /\ heap' = heap \cup PageChain(PageNumber(va))
    BY <1>1, <1>2, <1>3, AllocateKeeps
  <2>2. CASE CSC369_PageTableAllocate(va) /\ pc' = "run"
    <3>1. touched' = touched \cup {PageNumber(va)} /\ phase' = "ready"
      BY <1>1, <2>2 DEF CSC369_PageTableAllocate
    <3>2. heap' = {MM} \cup Tree(touched')
      BY <1>1, <2>1, <2>2, <3>1, TreeFacts
    <3> QED
      BY <2>1, <2>2, <3>1, <3>2 DEF HeapInv
  <2>3. CASE AllocateFails(va) /\ pc' = "handler"
    <3>1. touched' = touched /\ phase' = "crashed"
      BY <2>3 DEF AllocateFails
    <3> QED
      BY <2>3, <3>1 DEF HeapInv
  <2> QED
    BY <1>3, <2>2, <2>3
<1>4. CASE UNCHANGED ptVars /\ pc' = "handler"
  BY <1>4 DEF HeapInv, ptVars, heap
<1> QED
  BY <1>3, <1>4 DEF ExecuteMemInstruction

(* The table, and after it the block of the memory manager.                *)
LEMMA MMDestroyKeeps == HeapInv /\ MMDestroy => HeapInv' /\ pc' = "destroy"
<1> SUFFICES ASSUME HeapInv, MMDestroy PROVE HeapInv' /\ pc' = "destroy"
  OBVIOUS
<1>1. /\ phase = "ready" /\ heap = {MM} \cup Tree(touched)
      /\ touched \in SUBSET PageNumbers
      /\ MallocInv(km) /\ km.ok = TRUE
      /\ touched' = touched /\ phase' = "destroyed"
      /\ DestroyBlocks(Append(DestroyOrder[<<>>], MM))
      /\ pc' = IF km'.ok THEN "destroy" ELSE "handler"
  BY DEF MMDestroy, HeapInv
<1>2. TreeHeap = Tree(touched)
  BY <1>1, MMIs, TreeFacts DEF TreeHeap
<1> DEFINE order == DestroyOrder[<<>>]
           last == <<MM>>
<1>3. Shape(TreeHeap)
  BY <1>1, <1>2, TreeShape
<1>4. Frees(order, TreeHeap)
  BY <1>3, DestroyIs
<1>5. Frees(last, {MM})
  <2>1. Different(last) /\ ToSet(last) = {MM}
    BY MMIs, OneBlock
  <2>2. Len(last) = 1 /\ \A m, n \in 1 .. 1 : ~(m < n)
    OBVIOUS
  <2> QED
    BY <2>1, <2>2 DEF Frees, Ordered
<1>6. MM \notin TreeHeap /\ Owner(MM) \notin TreeHeap
  <2> DEFINE root == <<>>
  <2>1. Len(root) = 0 /\ ~(0 >= 1)
    OBVIOUS
  <2> HIDE DEF root
  <2>2. Block("pte", root) \notin TreeHeap
    BY <1>3, <2>1, BlockIs DEF Shape
  <2> QED
    BY <1>1, <1>2, <2>2, MMIs DEF root
<1>7. Append(order, MM) = order \o last
  BY <1>4 DEF Frees, Different
<1> HIDE DEF order, last
<1>8. Frees(order \o last, TreeHeap \cup {MM})
  <2>1. TreeHeap \cap {MM} = {}
    BY <1>6
  <2> QED
    BY <1>4, <1>5, <1>6, <2>1, ConcatFrees
<1>9. MallocInv(km') /\ heap' = {} /\ km'.ok = km.ok
  <2> DEFINE all == order \o last
             S == TreeHeap \cup {MM}
  <2>1. DestroyBlocks(all) /\ Frees(all, S) /\ S = heap
    BY <1>1, <1>2, <1>7, <1>8 DEF order
  <2> HIDE DEF all, S
  <2>2. MallocInv(km') /\ heap' = heap \ S /\ km'.ok = km.ok
    BY <1>1, <2>1, DestroyKeeps
  <2> QED
    BY <2>1, <2>2
<1> QED
  BY <1>1, <1>9 DEF HeapInv

(* The steps that leave the page table and kmalloc alone.                  *)
LEMMA OthersKeep ==
  ASSUME HeapInv, ControlInv, UNCHANGED <<km, touched, phase, delivered>>,
         \/ CreateSimulationFromArgs \/ AssignSimulation
         \/ DestroyDone \/ LeakCheck \/ Signal \/ HandleFatalSignal
         \/ \E r \in ToSet(Resources) : Acquire(r) \/ AcquireFails(r)
         \/ \E c \in DOMAIN Parts : DestroyPart(c)
         \/ UNCHANGED progVars
  PROVE  HeapInv'
<1>1. /\ pc \in {"handler", "exited", "killed"} => pc' \in {"handler", "exited", "killed"}
      /\ pc' \in {"args", "create"} => pc \in {"args", "create"}
      /\ pc' # "mm" \/ pc = "mm"
      /\ pc' \in {"created", "run", "execute"} => pc \in {"created", "run", "execute"}
      /\ pc' = "execute" => pc = "execute"
      /\ pc' = "destroy" => pc \in {"create", "destroy"}
      /\ pc' \in {"leakcheck", "returned"} =>
           \/ pc \in {"args", "create", "leakcheck", "returned"}
           \/ pc = "destroy" /\ phase # "ready"
  BY DEF CreateSimulationFromArgs, AssignSimulation, DestroyDone, LeakCheck,
         Signal, HandleFatalSignal, Acquire, AcquireFails, DestroyPart, Destroys, progVars
<1>2. heap' = heap
  BY DEF heap
<1>3. phase \in {"new", "ready", "failed", "crashed", "destroyed"}
  BY DEF HeapInv
<1>4. pc' \in {"leakcheck", "returned"} => phase \in {"new", "failed", "destroyed"}
  BY <1>1, <1>3 DEF HeapInv
<1> QED
  BY <1>1, <1>2, <1>3, <1>4 DEF HeapInv

(* The whole invariant: the handler finds the swap where main left it.     *)
ProgInv ==
  /\ ControlInv /\ TraceInv /\ HeapInv
  /\ external \in BOOLEAN
  /\ HandlerSafe

LEMMA ProgInitInv == ProgInit => ProgInv
<1>1. ProgInit => TraceInv
  BY DEF ProgInit, TraceInit, TraceInv, TraceTexts
<1> QED
  BY <1>1, ControlInit, HeapInit DEF ProgInv, HandlerSafe, ProgInit

LEMMA ProgNextInv == ProgInv /\ [ProgNext]_progVars => ProgInv'
<1> SUFFICES ASSUME ProgInv, [ProgNext]_progVars PROVE ProgInv'
  OBVIOUS
<1>1. ControlInv'
  BY ControlNext DEF ProgInv
<1> DEFINE Others ==
      \/ CreateSimulationFromArgs \/ AssignSimulation
      \/ DestroyDone \/ LeakCheck \/ Signal \/ HandleFatalSignal
      \/ \E r \in ToSet(Resources) : Acquire(r) \/ AcquireFails(r)
      \/ \E c \in DOMAIN Parts : DestroyPart(c)
      \/ UNCHANGED progVars
<1>2. \/ Others
      \/ SimulationRun \/ MMCreate \/ MMCreateTable \/ ExecuteMemInstruction \/ MMDestroy
  BY DEF ProgNext, MainNext, ProgTerminated
<1>3. Others => UNCHANGED <<ptVars, traceVars>>
  BY DEF CreateSimulationFromArgs, AssignSimulation, DestroyDone, LeakCheck,
         Signal, HandleFatalSignal, Acquire, AcquireFails, DestroyPart, progVars
<1>4. TraceInv'
  <2>1. ASSUME UNCHANGED traceVars PROVE TraceInv'
    BY <2>1 DEF ProgInv, TraceInv, traceVars
  <2>2. SimulationRun => TraceInv'
    BY TraceKeeps DEF SimulationRun, ProgInv
  <2>3. MMCreate \/ MMCreateTable \/ ExecuteMemInstruction \/ MMDestroy => UNCHANGED traceVars
    BY DEF MMCreate, MMCreateTable, ExecuteMemInstruction, MMDestroy
  <2> QED
    BY <1>2, <1>3, <2>1, <2>2, <2>3
<1>5. HeapInv'
  <2>1. Others => HeapInv'
    BY <1>3, OthersKeep DEF ProgInv, ptVars, traceVars
  <2>2. ASSUME SimulationRun PROVE HeapInv'
    <3>1. pc = "run" /\ pc' = (IF result' = 0 THEN "execute" ELSE "destroy")
          /\ UNCHANGED ptVars /\ (result' = 0 => Last(delivered') \in Addresses)
      BY <2>2, TraceKeeps DEF SimulationRun, ProgInv
    <3> QED
      BY <3>1 DEF ProgInv, HeapInv, ptVars, heap
  <2> QED
    BY <1>2, <2>1, <2>2, MMCreateKeeps, MMCreateTableKeeps, ExecuteKeeps, MMDestroyKeeps
       DEF ProgInv
<1>6. external' \in BOOLEAN /\ HandlerSafe'
  <2>1. CASE pc' = "handler"
    <3>1. CASE CreateSimulationFromArgs
      BY <2>1, <3>1 DEF CreateSimulationFromArgs, ProgInv, ControlInv, HandlerSafe
    <3>2. CASE MMCreate \/ MMCreateTable
      <4>1. pc \in {"create", "mm"} /\ UNCHANGED <<simulation, external>>
        BY <3>2 DEF MMCreate, MMCreateTable
      <4> QED
        BY <4>1 DEF ProgInv, ControlInv, HandlerSafe
    <3>3. CASE ExecuteMemInstruction
      BY <3>3, ResourcesAre
         DEF ExecuteMemInstruction, ProgInv, ControlInv, HandlerSafe, SwapValid, Complete
    <3>4. CASE Signal
      BY <3>4 DEF Signal, HandlerSafe
    <3>5. CASE UNCHANGED progVars
      BY <3>5 DEF progVars, ProgInv, HandlerSafe, SwapValid
    <3>6. ~MMDestroy
      BY <2>1, MMDestroyKeeps DEF ProgInv
    <3>7. /\ ~AssignSimulation /\ ~DestroyDone /\ ~LeakCheck /\ ~HandleFatalSignal
          /\ ~SimulationRun
          /\ \A r \in ToSet(Resources) : ~Acquire(r) /\ ~AcquireFails(r)
          /\ \A c \in DOMAIN Parts : ~DestroyPart(c)
      BY <2>1 DEF AssignSimulation, DestroyDone, LeakCheck, HandleFatalSignal, SimulationRun,
                  Acquire, AcquireFails, DestroyPart, Destroys
    <3> QED
      BY <1>2, <3>1, <3>2, <3>3, <3>4, <3>5, <3>6, <3>7
  <2>2. CASE pc' # "handler"
    <3>1. HandlerSafe'
      BY <2>2 DEF HandlerSafe
    <3>2. external' = external \/ external' = TRUE
      BY <1>2 DEF CreateSimulationFromArgs, AssignSimulation, DestroyDone,
                  LeakCheck, Signal, HandleFatalSignal, Acquire, AcquireFails, DestroyPart,
                  progVars, SimulationRun, MMCreate, MMCreateTable, ExecuteMemInstruction,
                  MMDestroy
    <3> QED
      BY <3>1, <3>2 DEF ProgInv
  <2> QED
    BY <2>1, <2>2
<1> QED
  BY <1>1, <1>4, <1>5, <1>6 DEF ProgInv

(* The state of the whole program: control, trace and heap together.       *)
THEOREM ProgramCorrect == ProgSpec => []ProgInv
  BY ProgInitInv, ProgNextInv, PTL DEF ProgSpec

(* None of memsim's own faults comes after CSC369_SwapDestroy: the         *)
(* destruction of the page table passes every assertion of kmalloc, so the *)
(* handler finds simulation->swap, or a simulation that is still NULL.     *)
THEOREM HandlerSafeCorrect == ProgSpec => []HandlerSafe
<1>1. ProgInv => HandlerSafe
  BY DEF ProgInv
<1> QED
  BY <1>1, ProgramCorrect, PTL

(* When main returns it has given back all that CSC369_SimulationCreate    *)
(* acquired, and CSC369_MallocIsLeakFree tells the truth; only a memory    *)
(* manager whose page table could not be created stays allocated.          *)
THEOREM ReturnReleasesAllCorrect == ProgSpec => []ReturnReleasesAll
<1>1. ProgInv => ReturnReleasesAll
  <2> SUFFICES ASSUME ProgInv, pc = "returned"
               PROVE  /\ held = {}
                      /\ IF phase = "failed" THEN heap \subseteq {MM, Table(<<>>)[1]}
                         ELSE heap = {} /\ CSC369_MallocIsLeakFree(km, 0, 0)
                      /\ simulation = "dangling" => stdin
    BY DEF ReturnReleasesAll
  <2>1. held = {} /\ (simulation = "dangling" => stdin)
    BY DEF ProgInv, ControlInv
  <2>2. Table(<<>>)[1] = Block("table", <<>>)
    BY DEF Table
  <2>3. phase # "failed" => heap = {}
    BY DEF ProgInv, HeapInv
  <2>4. heap = {} => CSC369_MallocIsLeakFree(km, 0, 0)
    BY NoBytes, FS_EmptySet
       DEF ProgInv, HeapInv, MallocInv, heap, CSC369_MallocIsLeakFree
  <2>5. phase = "failed" => heap \subseteq {MM, Block("table", <<>>)}
    BY DEF ProgInv, HeapInv
  <2> QED
    BY <2>1, <2>2, <2>3, <2>4, <2>5
<1> QED
  BY <1>1, ProgramCorrect, PTL

-----------------------------------------------------------------------------
(* What is replayed of the trace *)

(* What the recursive definition in Replayed asks of its function.         *)
ValidTo(lines, n) == \A m \in 1 .. n : lines[m] # <<Invalid>>
Replays(g, lines, last) ==
  g = [n \in 0 .. last |->
         IF n = 0 THEN <<>>
         ELSE IF ValidTo(lines, n) /\ lines[n] # <<Comment>>
                THEN Append(g[n - 1], lines[n][1].va) ELSE g[n - 1]]

LEMMA ReplaysExists ==
  ASSUME NEW lines, NEW last \in Nat
  PROVE  \E g : Replays(g, lines, last)
<1> DEFINE T == {j \in Nat : ~ \E g : Replays(g, lines, j)}
<1> SUFFICES ASSUME T # {} PROVE FALSE
  OBVIOUS
<1>1. PICK j \in T : \A y \in T : j <= y
  <2> HIDE DEF T
  <2>1. T \in SUBSET Nat
    BY DEF T
  <2> QED
    BY <2>1, LeastNat
<1>2. j # 0
  <2>1. Replays([n \in 0 .. 0 |-> <<>>], lines, 0)
    BY DEF Replays
  <2> QED
    BY <1>1, <2>1
<1>3. PICK g : Replays(g, lines, j - 1)
  BY <1>1, <1>2
<1> DEFINE Longer(x, n) ==
      IF ValidTo(lines, n) /\ lines[n] # <<Comment>> THEN Append(x, lines[n][1].va) ELSE x
           f == [n \in 0 .. j |-> IF n = 0 THEN <<>> ELSE Longer(g[n - 1], n)]
<1>4. g = [n \in 0 .. j - 1 |-> IF n = 0 THEN <<>> ELSE Longer(g[n - 1], n)]
  BY <1>3 DEF Replays
<1> HIDE DEF Longer
<1>5. \A n \in 0 .. j - 1 : f[n] = g[n]
  BY <1>1, <1>4
<1>6. f = [n \in 0 .. j |-> IF n = 0 THEN <<>> ELSE Longer(f[n - 1], n)]
  <2>1. \A n \in 0 .. j : n # 0 => n - 1 \in 0 .. j - 1
    BY <1>1
  <2>2. \A n \in 0 .. j : n # 0 => f[n] = Longer(f[n - 1], n)
    BY <1>5, <2>1
  <2> QED
    BY <2>2
<1> HIDE DEF f
<1>7. Replays(f, lines, j)
  BY <1>6 DEF Replays, Longer
<1> QED
  BY <1>1, <1>7

LEMMA ReplayedStep ==
  ASSUME NEW lines, NEW last \in Nat, Len(lines) = last
  PROVE  /\ Replayed(lines)[0] = <<>>
         /\ \A n \in 1 .. last :
              Replayed(lines)[n] = IF ValidTo(lines, n) /\ lines[n] # <<Comment>>
                                     THEN Append(Replayed(lines)[n - 1], lines[n][1].va)
                                     ELSE Replayed(lines)[n - 1]
<1> DEFINE R == Replayed(lines)
<1>1. R = CHOOSE g : Replays(g, lines, last)
  BY Zenon DEF Replayed, Replays, ValidTo
<1>2. Replays(R, lines, last)
  BY <1>1, ReplaysExists
<1> HIDE DEF R
<1>3. R[0] = <<>> /\ \A n \in 1 .. last :
        R[n] = IF ValidTo(lines, n) /\ lines[n] # <<Comment>>
                 THEN Append(R[n - 1], lines[n][1].va) ELSE R[n - 1]
  <2> DEFINE Longer(x, n) ==
        IF ValidTo(lines, n) /\ lines[n] # <<Comment>> THEN Append(x, lines[n][1].va) ELSE x
  <2>1. R = [n \in 0 .. last |-> IF n = 0 THEN <<>> ELSE Longer(R[n - 1], n)]
    BY <1>2 DEF Replays
  <2> HIDE DEF Longer
  <2>2. R[0] = <<>>
    BY <2>1
  <2>3. \A n \in 1 .. last : R[n] = Longer(R[n - 1], n)
    BY <2>1
  <2> QED
    BY <2>2, <2>3 DEF Longer
<1> QED
  BY <1>3 DEF R

(* Lines that hold one text each.                                          *)
OneText(lines) == \A m \in 1 .. Len(lines) : lines[m] \in Seq(TraceTexts) /\ Len(lines[m]) = 1

LEMMA ReplayedTyped ==
  ASSUME NEW lines, NEW last \in Nat, Len(lines) = last, OneText(lines)
  PROVE  \A n \in 0 .. last : Replayed(lines)[n] \in Seq(Addresses)
<1> DEFINE R == Replayed(lines)
           T == {n \in 0 .. last : R[n] \notin Seq(Addresses)}
<1> SUFFICES ASSUME T # {} PROVE FALSE
  OBVIOUS
<1>1. PICK j \in T : \A y \in T : j <= y
  <2> HIDE DEF T
  <2>1. T \in SUBSET Nat
    BY DEF T
  <2> QED
    BY <2>1, LeastNat
<1>2. R[0] = <<>> /\ \A n \in 1 .. last :
        R[n] = IF ValidTo(lines, n) /\ lines[n] # <<Comment>>
                 THEN Append(R[n - 1], lines[n][1].va) ELSE R[n - 1]
  BY ReplayedStep
<1> HIDE DEF R
<1>3. j # 0
  <2>1. R[0] \in Seq(Addresses)
    BY <1>2
  <2> QED
    BY <1>1, <2>1
<1>4. j \in 1 .. last /\ j - 1 \in 0 .. last /\ j - 1 < j
  BY <1>1, <1>3
<1>5. R[j - 1] \in Seq(Addresses)
  BY <1>1, <1>4
<1>6. ASSUME ValidTo(lines, j), lines[j] # <<Comment>> PROVE lines[j][1].va \in Addresses
  <2>1. lines[j] \in Seq(TraceTexts) /\ Len(lines[j]) = 1
    BY <1>4 DEF OneText
  <2>2. lines[j] = <<lines[j][1]>> /\ lines[j][1] \in TraceTexts
    BY <2>1
  <2>3. lines[j] # <<Invalid>>
    BY <1>4, <1>6 DEF ValidTo
  <2>4. lines[j][1] # Comment /\ lines[j][1] # Invalid
    BY <1>6, <2>2, <2>3
  <2> QED
    BY <2>2, <2>4 DEF TraceTexts, Access
<1>7. R[j] \in Seq(Addresses)
  <2> DEFINE va == lines[j][1].va
  <2>1. CASE ValidTo(lines, j) /\ lines[j] # <<Comment>>
    <3>1. R[j] = Append(R[j - 1], va) /\ va \in Addresses
      BY <1>2, <1>4, <1>6, <2>1
    <3> HIDE DEF va
    <3> QED
      BY <1>5, <3>1
  <2>2. CASE ~(ValidTo(lines, j) /\ lines[j] # <<Comment>>)
    BY <1>2, <1>4, <1>5, <2>2
  <2> QED
    BY <2>1, <2>2
<1> QED
  BY <1>1, <1>7

(* Comments, and lines behind an invalid one, add nothing.                 *)
LEMMA ReplayedQuiet ==
  ASSUME NEW lines, NEW last \in Nat, Len(lines) = last, NEW a \in 0 .. last,
         NEW b \in a .. last,
         \A n \in a + 1 .. b : lines[n] = <<Comment>> \/ ~ValidTo(lines, n)
  PROVE  Replayed(lines)[b] = Replayed(lines)[a]
<1> DEFINE R == Replayed(lines)
           T == {n \in a .. b : R[n] # R[a]}
<1> SUFFICES ASSUME T # {} PROVE FALSE
  <2>1. b \in a .. b
    OBVIOUS
  <2> QED
    BY <2>1
<1>1. PICK j \in T : \A y \in T : j <= y
  <2>1. T \in SUBSET Nat
    OBVIOUS
  <2> HIDE DEF T
  <2> QED
    BY <2>1, LeastNat
<1>2. \A n \in 1 .. last :
        R[n] = IF ValidTo(lines, n) /\ lines[n] # <<Comment>>
                 THEN Append(R[n - 1], lines[n][1].va) ELSE R[n - 1]
  BY ReplayedStep
<1> HIDE DEF R
<1>3. j # a
  BY <1>1
<1>4. j \in a + 1 .. b /\ j - 1 \in a .. b /\ j - 1 < j /\ j \in 1 .. last
  BY <1>1, <1>3
<1>5. R[j - 1] = R[a]
  BY <1>1, <1>4
<1>6. R[j] = R[j - 1]
  BY <1>2, <1>4
<1> QED
  BY <1>1, <1>5, <1>6

(* What was replayed is never taken back.                                  *)
Continues(s, t) == Len(s) <= Len(t) /\ \A i \in 1 .. Len(s) : s[i] = t[i]

LEMMA ReplayedContinues ==
  ASSUME NEW lines, NEW last \in Nat, Len(lines) = last, OneText(lines), NEW a \in 0 .. last
  PROVE  Continues(Replayed(lines)[a], Replayed(lines)[last])
<1> DEFINE R == Replayed(lines)
           T == {n \in a .. last : ~Continues(R[a], R[n])}
<1> SUFFICES ASSUME T # {} PROVE FALSE
  <2>1. last \in a .. last
    OBVIOUS
  <2> QED
    BY <2>1
<1>1. PICK j \in T : \A y \in T : j <= y
  <2>1. T \in SUBSET Nat
    OBVIOUS
  <2> HIDE DEF T
  <2> QED
    BY <2>1, LeastNat
<1>2. \A n \in 1 .. last :
        R[n] = IF ValidTo(lines, n) /\ lines[n] # <<Comment>>
                 THEN Append(R[n - 1], lines[n][1].va) ELSE R[n - 1]
  BY ReplayedStep
<1>3. \A n \in 0 .. last : R[n] \in Seq(Addresses)
  BY ReplayedTyped
<1> HIDE DEF R
<1>4. j # a
  BY <1>1, <1>3 DEF Continues
<1>5. j - 1 \in a .. last /\ j - 1 \in 0 .. last /\ j - 1 < j /\ j \in 1 .. last
  BY <1>1, <1>4
<1>6. Continues(R[a], R[j - 1])
  BY <1>1, <1>5
<1>7. R[a] \in Seq(Addresses) /\ R[j - 1] \in Seq(Addresses)
  BY <1>3, <1>5
<1>8. PICK v : R[j] = R[j - 1] \/ R[j] = Append(R[j - 1], v)
  BY <1>2, <1>5
<1>9. Continues(R[a], R[j])
  <2> DEFINE s == R[a]
             t == R[j - 1]
             u == Append(t, v)
  <2>1. s \in Seq(Addresses) /\ t \in Seq(Addresses) /\ Continues(s, t)
    BY <1>6, <1>7
  <2> HIDE DEF s, t
  <2>2. Len(u) = Len(t) + 1 /\ Len(t) \in Nat /\ Len(s) \in Nat /\ \A i \in 1 .. Len(t) : u[i] = t[i]
    BY <2>1
  <2> HIDE DEF u
  <2>3. Continues(s, u)
    BY <2>1, <2>2 DEF Continues
  <2> QED
    BY <1>6, <1>8, <2>3 DEF s, t, u
<1> QED
  BY <1>1, <1>9

LEMMA ConcatOne ==
  ASSUME NEW S, NEW a \in Seq(S), NEW t \in Seq(S), Len(t) = 1
  PROVE  /\ a \o t \in Seq(S) /\ Len(a \o t) = Len(a) + 1
         /\ (a \o t)[Len(a) + 1] = t[1]
         /\ \A m \in 1 .. Len(a) : (a \o t)[m] = a[m]
<1>1. PICK u : u = a \o t
  OBVIOUS
<1>2. /\ u \in Seq(S) /\ Len(u) = Len(a) + 1
      /\ \A i \in 1 .. Len(a) + 1 : u[i] = IF i <= Len(a) THEN a[i] ELSE t[i - Len(a)]
  BY ONLY <1>1, a \in Seq(S), t \in Seq(S), Len(t) = 1, ConcatProperties
<1>3. Len(a) \in Nat /\ Len(a) + 1 - Len(a) = 1 /\ Len(a) + 1 \in 1 .. Len(a) + 1
      /\ ~(Len(a) + 1 <= Len(a))
  OBVIOUS
<1>4. u[Len(a) + 1] = t[1]
  BY <1>2, <1>3
<1>5. \A m \in 1 .. Len(a) : u[m] = a[m]
  BY <1>2, <1>3
<1> QED
  BY <1>1, <1>2, <1>4, <1>5

(* In a tidy file the texts are the lines.                                 *)
LEMMA TidyTexts ==
  ASSUME NEW f \in Files, Tidy(f)
  PROVE  /\ Len(Texts(f)) = Len(f.lines) /\ Len(f.lines) \in Nat
         /\ \A m \in 1 .. Len(f.lines) : f.lines[m] = <<Texts(f)[m]>>
<1> DEFINE seqs == f.lines
           n == Len(seqs)
<1>1. seqs \in Seq(Seq(TraceTexts)) /\ n \in Nat
  BY FileIs
<1>2. \A i \in 1 .. n : seqs[i] \in Seq(TraceTexts) /\ Len(seqs[i]) = 1
  BY <1>1 DEF Tidy
<1>3. \A i \in 1 .. n : seqs[i] = <<seqs[i][1]>>
  BY <1>2
<1>4. Texts(f) = FlattenSeq(seqs)
  BY DEF Texts
<1> HIDE DEF seqs
<1>5. CASE n = 0
  <2>1. FlattenSeq(seqs) = seqs
    BY <1>5 DEF FlattenSeq
  <2> QED
    BY <1>4, <1>5, <2>1 DEF seqs
<1>6. CASE n # 0
  <2>1. PICK g : Flattens(g, seqs, n) /\ FlattenSeq(seqs) = g[n]
    BY <1>1, <1>6, FlattenIs
  <2>2. g[1] = seqs[1] /\ \A i \in 2 .. n : g[i] = g[i - 1] \o seqs[i]
    <3> HIDE DEF n
    <3>1. LineByLine(g, seqs, n)
      BY <1>1, <1>6, <2>1, FlattenSteps
    <3> QED
      BY <3>1 DEF LineByLine
  <2> DEFINE Right(i) == /\ g[i] \in Seq(TraceTexts) /\ Len(g[i]) = i
                         /\ \A m \in 1 .. i : g[i][m] = seqs[m][1]
             T == {i \in 1 .. n : ~Right(i)}
  <2>3. ASSUME T # {} PROVE FALSE
    <3>1. PICK j \in T : \A y \in T : j <= y
      <4>1. T \in SUBSET Nat
        BY <1>1
      <4> HIDE DEF T
      <4> QED
        BY <2>3, <4>1, LeastNat
    <3>2. j # 1
      <4>1. Right(1)
        BY <1>1, <1>2, <1>6, <2>2
      <4> HIDE DEF Right
      <4> QED
        BY <3>1, <4>1
    <3>3. PICK i \in Nat : i = j - 1
      BY <1>1, <3>1, <3>2
    <3>4. i \in 1 .. n /\ i < j /\ j \in 2 .. n /\ j = i + 1
      BY <1>1, <3>1, <3>2, <3>3
    <3>5. Right(i)
      BY <3>1, <3>4
    <3> DEFINE t == seqs[j]
    <3>6. t \in Seq(TraceTexts) /\ Len(t) = 1 /\ g[j] = g[i] \o t
      BY <1>1, <1>2, <2>2, <3>3, <3>4
    <3>7. PICK a : a = g[i]
      OBVIOUS
    <3>8. PICK u : u = a \o t
      OBVIOUS
    <3> HIDE DEF t
    <3>9. /\ u \in Seq(TraceTexts) /\ Len(u) = i + 1 /\ u[i + 1] = t[1]
          /\ \A m \in 1 .. i : u[m] = a[m]
      <4>1. a \in Seq(TraceTexts) /\ t \in Seq(TraceTexts) /\ Len(a) = i /\ Len(t) = 1
        BY <3>5, <3>6, <3>7
      <4>2. /\ a \o t \in Seq(TraceTexts) /\ Len(a \o t) = Len(a) + 1
            /\ (a \o t)[Len(a) + 1] = t[1]
            /\ \A m \in 1 .. Len(a) : (a \o t)[m] = a[m]
        BY ONLY <4>1, ConcatOne
      <4> QED
        BY ONLY <3>8, <4>1, <4>2
    <3>10. Right(j)
      <4>1. g[j] = u /\ t = seqs[j] /\ Len(u) = j /\ u[j] = seqs[j][1]
        BY <3>4, <3>6, <3>7, <3>8, <3>9 DEF t
      <4>2. ASSUME NEW m \in 1 .. j PROVE u[m] = seqs[m][1]
        <5>1. m = j \/ m \in 1 .. i
          BY <3>4
        <5>2. m \in 1 .. i => u[m] = seqs[m][1]
          BY <3>5, <3>7, <3>9
        <5> QED
          BY <4>1, <5>1, <5>2
      <4> QED
        BY <3>9, <4>1, <4>2
    <3> HIDE DEF Right
    <3> QED
      BY <3>1, <3>10
  <2>4. n \in 1 .. n
    BY <1>1, <1>6
  <2>5. Right(n)
    BY <2>3, <2>4
  <2> QED
    BY <1>1, <1>3, <1>4, <2>1, <2>5 DEF seqs
<1> QED
  BY <1>5, <1>6

LEMMA TextIs ==
  /\ \A t \in TraceTexts : t.kind \in {"access", "comment", "invalid"}
  /\ \A t \in TraceTexts : t.kind = "comment" <=> t = Comment
  /\ \A t \in TraceTexts : t.kind = "invalid" <=> t = Invalid
  /\ Comment # Invalid /\ <<Comment>> # <<Invalid>>
<1>1. Comment.kind = "comment" /\ Invalid.kind = "invalid" /\ \A va : Access(va).kind = "access"
  BY DEF Comment, Invalid, Access
<1>2. \A t \in TraceTexts : t = Comment \/ t = Invalid \/ \E va \in Addresses : t = Access(va)
  BY DEF TraceTexts
<1>3. Comment # Invalid
  BY <1>1
<1>4. <<Comment>>[1] = Comment /\ <<Invalid>>[1] = Invalid
  OBVIOUS
<1> QED
  BY <1>1, <1>2, <1>3, <1>4

(* The lines c of a tidy file with the texts t.                            *)
LineTexts(t, c) ==
  /\ Len(c) \in Nat /\ Len(t) = Len(c) /\ OneText(c)
  /\ \A m \in 1 .. Len(c) : t[m] \in TraceTexts /\ c[m] = <<t[m]>>

LEMMA LinesAre ==
  ASSUME NEW f \in Files, Tidy(f)
  PROVE  LineTexts(Texts(f), f.lines)
<1>1. PICK t, c : t = Texts(f) /\ c = f.lines
  OBVIOUS
<1>2. c \in Seq(Seq(TraceTexts)) /\ t \in Seq(TraceTexts)
  BY <1>1, FileIs
<1>3. Len(c) \in Nat /\ Len(t) = Len(c) /\ \A m \in 1 .. Len(c) : c[m] = <<t[m]>>
  BY <1>1, TidyTexts
<1>4. OneText(c)
  BY <1>1, <1>2 DEF Tidy, OneText
<1>5. \A m \in 1 .. Len(c) : t[m] \in TraceTexts
  BY <1>2, <1>3
<1> QED
  BY <1>1, <1>3, <1>4, <1>5 DEF LineTexts

(* The accesses of the first p lines were returned.                        *)
Reads(f, p, d) ==
  /\ p \in 0 .. Len(f.lines) /\ ValidTo(f.lines, p)
  /\ d = Replayed(f.lines)[p]

(* A text is read: an access is returned, or it was the last.              *)
LEMMA ReadReplays ==
  ASSUME NEW f \in Files, Tidy(f), NEW p, NEW d \in Seq(Addresses),
         Reads(f, p, d), NEW n, n = Len(Texts(f)), NEW q \in p + 1 .. n + 1,
         \A m \in p + 1 .. q - 1 : Texts(f)[m].kind = "comment",
         q <= n => Texts(f)[q].kind # "comment"
  PROVE  /\ q <= n /\ Texts(f)[q].kind = "access" =>
              Reads(f, q, Append(d, Texts(f)[q].va))
         /\ q > n \/ Texts(f)[q].kind # "access" => d = Accesses(f)
<1>1. PICK c, R, t : c = f.lines /\ R = Replayed(c) /\ t = Texts(f)
  OBVIOUS
<1>2. /\ n \in Nat /\ n = Len(c) /\ OneText(c)
      /\ \A m \in 1 .. n : t[m] \in TraceTexts /\ c[m] = <<t[m]>>
  <2>1. LineTexts(t, c)
    BY <1>1, LinesAre
  <2> QED
    BY <1>1, <2>1 DEF LineTexts
<1>3. p \in 0 .. n /\ ValidTo(c, p) /\ d = R[p]
  BY <1>1, <1>2 DEF Reads
<1>4. \A m \in 1 .. n : R[m] = IF ValidTo(c, m) /\ c[m] # <<Comment>>
                                 THEN Append(R[m - 1], c[m][1].va) ELSE R[m - 1]
  BY <1>1, <1>2, ReplayedStep
<1>5. ASSUME NEW b \in p .. n,
             \A m \in p + 1 .. b : c[m] = <<Comment>> \/ ~ValidTo(c, m)
      PROVE  R[b] = R[p]
  BY <1>1, <1>2, <1>3, <1>5, ReplayedQuiet
<1>6. \A m \in p + 1 .. q - 1 : c[m] = <<Comment>>
  <2> SUFFICES ASSUME NEW m \in p + 1 .. q - 1 PROVE c[m] = <<Comment>>
    OBVIOUS
  <2>1. m \in 1 .. n
    BY <1>2, <1>3
  <2>2. t[m] \in TraceTexts /\ t[m].kind = "comment" /\ c[m] = <<t[m]>>
    BY <1>1, <1>2, <2>1
  <2> QED
    BY <2>2, TextIs
<1>7. q \in Nat /\ p \in Nat /\ p < q /\ q <= n + 1
  BY <1>2, <1>3
<1>8. ASSUME R[n] = R[p] PROVE d = Accesses(f)
  BY <1>1, <1>2, <1>3, <1>8 DEF Accesses
<1>9. ASSUME q > n PROVE d = Accesses(f)
  <2>1. q - 1 = n /\ n \in p .. n
    BY <1>2, <1>3, <1>7, <1>9
  <2>2. \A m \in p + 1 .. n : c[m] = <<Comment>>
    BY <1>6, <2>1
  <2> QED
    BY <1>5, <1>8, <2>1, <2>2
<1>10. ASSUME q <= n, t[q].kind # "access" PROVE d = Accesses(f)
  <2>1. q \in 1 .. n
    BY <1>2, <1>7, <1>10
  <2>2. t[q] = Invalid
    BY <1>1, <1>2, <1>10, <2>1, TextIs
  <2>3. c[q] = <<Invalid>>
    BY <1>2, <2>1, <2>2
  <2>4. ASSUME NEW m \in p + 1 .. n PROVE c[m] = <<Comment>> \/ ~ValidTo(c, m)
    <3>1. CASE m < q
      <4>1. m \in p + 1 .. q - 1
        BY <1>2, <1>3, <1>7, <3>1
      <4> QED
        BY <1>6, <4>1
    <3>2. CASE ~(m < q)
      <4>1. q \in 1 .. m
        BY <1>2, <1>3, <1>7, <2>1, <3>2
      <4> QED
        BY <2>3, <4>1 DEF ValidTo
    <3> QED
      BY <3>1, <3>2
  <2>5. n \in p .. n
    BY <1>2, <1>3
  <2> QED
    BY <1>5, <1>8, <2>4, <2>5
<1>11. ASSUME q <= n, t[q].kind = "access" PROVE Reads(f, q, Append(d, t[q].va))
  <2>1. q \in 1 .. n /\ q \in 0 .. n /\ q - 1 \in p .. n
    BY <1>2, <1>3, <1>7, <1>11
  <2>2. t[q] # Invalid /\ t[q] # Comment
    BY <1>2, <1>11, <2>1, TextIs
  <2>3. c[q] = <<t[q]>>
    BY <1>2, <2>1
  <2>4. c[q] # <<Invalid>> /\ c[q] # <<Comment>> /\ c[q][1] = t[q]
    <3>1. c[q][1] = t[q] /\ <<Invalid>>[1] = Invalid /\ <<Comment>>[1] = Comment
      BY <2>3
    <3> QED
      BY <2>2, <3>1
  <2>5. ValidTo(c, q)
    <3>1. ASSUME NEW m \in 1 .. q PROVE c[m] # <<Invalid>>
      <4>1. m \in 1 .. p \/ m \in p + 1 .. q - 1 \/ m = q
        BY <1>2, <1>3, <1>7
      <4> QED
        BY <1>3, <1>6, <2>4, <4>1, TextIs DEF ValidTo
    <3> QED
      BY <3>1 DEF ValidTo
  <2>6. R[q - 1] = R[p]
    BY <1>5, <1>6, <2>1
  <2>7. R[q] = Append(d, t[q].va)
    BY <1>3, <1>4, <2>1, <2>4, <2>5, <2>6
  <2> QED
    BY <1>1, <1>2, <2>1, <2>5, <2>7 DEF Reads
<1> QED
  BY <1>1, <1>9, <1>10, <1>11

(* A trace without defects is read, as long as the last read returned an   *)
(* access; then the end or an invalid line was met.                        *)
Undisturbed == Tidy(file) /\ file.terminated /\ errors = 0

ReplayInv ==
  /\ result \in {0, -1} /\ errors \in Nat
  /\ pc \in {"args", "create", "mm", "created", "run", "execute"} => result = 0
  /\ Undisturbed => IF result = 0 THEN Reads(file, pos, delivered)
                    ELSE delivered = Accesses(file)

LEMMA ReplayInit == ProgInit => ReplayInv
<1> SUFFICES ASSUME ProgInit PROVE ReplayInv
  OBVIOUS
<1>1. file \in Files /\ pos = 0 /\ delivered = <<>> /\ result = 0 /\ errors = 0
  BY DEF ProgInit, TraceInit
<1>2. ASSUME Tidy(file) PROVE Reads(file, pos, delivered)
  <2>1. PICK f, c : f = file /\ c = f.lines
    OBVIOUS
  <2>2. Len(c) \in Nat
    BY <1>1, <1>2, <2>1, LinesAre DEF LineTexts
  <2>3. Replayed(c)[0] = <<>>
    BY <2>2, ReplayedStep
  <2>4. ValidTo(c, 0) /\ 0 \in 0 .. Len(c)
    BY <2>2 DEF ValidTo
  <2> QED
    BY <1>1, <2>1, <2>3, <2>4 DEF Reads
<1> QED
  BY <1>1, <1>2 DEF ReplayInv, Undisturbed

LEMMA TraceReadReplays ==
  ASSUME TraceInv, ReplayInv, result = 0, CSC369_TraceRead
  PROVE  /\ result' \in {0, -1} /\ errors' \in Nat
         /\ Undisturbed' => IF result' = 0 THEN Reads(file', pos', delivered')
                            ELSE delivered' = Accesses(file')
<1>1. PICK f, p, d, n : f = file /\ p = pos /\ d = delivered /\ n = Len(Texts(f))
  OBVIOUS
<1>2. f \in Files /\ d \in Seq(Addresses) /\ errors \in Nat /\ p \in Nat /\ n \in Nat
  BY <1>1, FileIs DEF TraceInv, ReplayInv
<1>3. \A text : Parse(text) => /\ result' \in {0, -1}
                               /\ result' = 0 <=> text.kind = "access"
                               /\ result' = 0 => delivered' = Append(d, text.va)
                               /\ result' # 0 => delivered' = d
  BY <1>1 DEF Parse
<1>4. CASE ReadText
  <2>1. PICK q \in p + 1 .. n + 1 :
          /\ SkipsTo(q)
          /\ pos' = IF q > n THEN q - 1 ELSE q
          /\ Parse(IF q > n \/ (q = n /\ ~f.terminated) THEN Invalid ELSE Texts(f)[q])
          /\ file' = f /\ errors' = errors
    BY <1>1, <1>4 DEF ReadText
  <2>2. /\ \A m \in p + 1 .. q - 1 : Texts(f)[m].kind = "comment"
        /\ q <= n => Texts(f)[q].kind # "comment"
    BY <1>1, <2>1 DEF SkipsTo
  <2>3. result' \in {0, -1} /\ errors' \in Nat
    BY <1>2, <1>3, <2>1
  <2>4. ASSUME Undisturbed'
        PROVE  IF result' = 0 THEN Reads(file', pos', delivered')
               ELSE delivered' = Accesses(file')
    <3>1. Tidy(f) /\ f.terminated /\ Reads(f, p, d)
      BY <1>1, <2>1, <2>4 DEF Undisturbed, ReplayInv
    <3>2. PICK t : t = Texts(f)[q]
      OBVIOUS
    <3>3. /\ q <= n /\ t.kind = "access" => Reads(f, q, Append(d, t.va))
          /\ q > n \/ t.kind # "access" => d = Accesses(f)
      <4>1. f \in Files /\ d \in Seq(Addresses) /\ n = Len(Texts(f))
        BY <1>1, <1>2
      <4>2. /\ q <= n /\ Texts(f)[q].kind = "access" =>
                 Reads(f, q, Append(d, Texts(f)[q].va))
            /\ q > n \/ Texts(f)[q].kind # "access" => d = Accesses(f)
        BY ONLY <2>2, <3>1, <4>1, q \in p + 1 .. n + 1, ReadReplays
      <4> QED
        BY ONLY <3>2, <4>2
    <3>4. CASE q > n
      <4>1. Invalid.kind # "access"
        BY DEF Invalid
      <4>2. result' # 0 /\ delivered' = d
        BY <1>3, <2>1, <3>4, <4>1
      <4> QED
        BY <2>1, <3>3, <3>4, <4>2
    <3>5. CASE ~(q > n)
      <4>1. Parse(t) /\ pos' = q /\ q <= n
        BY <1>2, <2>1, <3>1, <3>2, <3>5
      <4> QED
        BY <1>3, <2>1, <3>3, <4>1
    <3> QED
      BY <3>4, <3>5
  <2> QED
    BY <2>3, <2>4
<1>5. CASE ReadError
  <2>1. errors' = errors + 1 /\ Parse(buffer')
    BY <1>5 DEF ReadError
  <2>2. errors' \in Nat /\ errors' # 0
    BY <1>2, <2>1
  <2> QED
    BY <1>3, <2>1, <2>2 DEF Undisturbed
<1> QED
  BY <1>4, <1>5 DEF CSC369_TraceRead

LEMMA ReplayNext == ProgInv /\ ReplayInv /\ [ProgNext]_progVars => ReplayInv'
<1> SUFFICES ASSUME ProgInv, ReplayInv, [ProgNext]_progVars PROVE ReplayInv'
  OBVIOUS
<1> DEFINE Reading == {"args", "create", "mm", "created", "run", "execute"}
<1>1. CASE SimulationRun
  <2>1. result = 0 /\ CSC369_TraceRead /\ TraceInv
    BY <1>1 DEF SimulationRun, ReplayInv, ProgInv
  <2>2. /\ result' \in {0, -1} /\ errors' \in Nat
        /\ Undisturbed' => IF result' = 0 THEN Reads(file', pos', delivered')
                           ELSE delivered' = Accesses(file')
    BY <2>1, TraceReadReplays
  <2>3. pc' \in Reading => result' = 0
    BY <1>1 DEF SimulationRun
  <2> QED
    BY <2>2, <2>3 DEF ReplayInv
<1>2. CASE ~SimulationRun
  <2>1. UNCHANGED traceVars /\ (pc' \in Reading => pc \in Reading)
    <3>1. CASE \/ CreateSimulationFromArgs \/ AssignSimulation
               \/ DestroyDone \/ LeakCheck \/ Signal \/ HandleFatalSignal
               \/ UNCHANGED progVars
      BY <3>1 DEF CreateSimulationFromArgs, AssignSimulation, DestroyDone,
                  LeakCheck, Signal, HandleFatalSignal, progVars
    <3>2. CASE MMCreate \/ MMCreateTable \/ ExecuteMemInstruction \/ MMDestroy
      BY <3>2 DEF MMCreate, MMCreateTable, ExecuteMemInstruction, MMDestroy
    <3>3. ASSUME NEW r \in ToSet(Resources), Acquire(r) \/ AcquireFails(r)
          PROVE  UNCHANGED traceVars /\ (pc' \in Reading => pc \in Reading)
      BY <3>3 DEF Acquire, AcquireFails
    <3>4. ASSUME NEW c \in DOMAIN Parts, DestroyPart(c)
          PROVE  UNCHANGED traceVars /\ (pc' \in Reading => pc \in Reading)
      BY <3>4 DEF DestroyPart
    <3> QED
      BY <1>2, <3>1, <3>2, <3>3, <3>4 DEF ProgNext, MainNext, ProgTerminated
  <2>2. /\ file' = file /\ pos' = pos /\ delivered' = delivered
        /\ result' = result /\ errors' = errors
    BY <2>1 DEF traceVars
  <2> QED
    BY <2>1, <2>2 DEF ReplayInv, Undisturbed
<1> QED
  BY <1>1, <1>2

(* CSC369_TraceRead hands SimulationRun every access of a trace whose      *)
(* lines fit the buffer, that ends in a newline and that is read without   *)
(* an error, once and in order up to the first invalid line; when it       *)
(* returns -1 all of them were handed over.  A last line without a newline *)
(* and a read error are outside the theorem: the code drops the one and    *)
(* repeats an access after the other.                                      *)
THEOREM TraceReplayedCorrect == ProgSpec => []TraceReplayed
<1>1. ProgInv /\ ReplayInv => TraceReplayed
  <2> SUFFICES ASSUME ProgInv, ReplayInv, Undisturbed
               PROVE  /\ IsPrefix(delivered, Accesses(file))
                      /\ result = -1 => delivered = Accesses(file)
    BY DEF TraceReplayed, Undisturbed
  <2>1. PICK f, c, L, R : f = file /\ c = f.lines /\ L = Len(c) /\ R = Replayed(c)
    OBVIOUS
  <2>2. f \in Files /\ delivered \in Seq(Addresses) /\ result \in {0, -1} /\ Tidy(f)
    BY <2>1 DEF ProgInv, TraceInv, ReplayInv, Undisturbed
  <2>3. L \in Nat /\ OneText(c)
    BY <2>1, <2>2, LinesAre DEF LineTexts
  <2>4. Accesses(file) = R[L] /\ L \in 0 .. L
    BY <2>1, <2>3 DEF Accesses
  <2>5. \A k \in 0 .. L : R[k] \in Seq(Addresses) /\ Continues(R[k], R[L])
    BY <2>1, <2>3, ReplayedTyped, ReplayedContinues
  <2>6. CASE result = 0
    <3>1. pos \in 0 .. L /\ delivered = R[pos]
      BY <2>1, <2>6 DEF ReplayInv, Reads
    <3>2. PICK s, t : s = R[pos] /\ t = R[L]
      OBVIOUS
    <3>3. s \in Seq(Addresses) /\ t \in Seq(Addresses) /\ Continues(s, t)
      BY <2>4, <2>5, <3>1, <3>2
    <3>4. IsPrefix(s, t)
      BY <3>3 DEF Continues, IsPrefix
    <3> QED
      BY <2>4, <2>6, <3>1, <3>2, <3>4
  <2>7. CASE result = -1
    <3>1. delivered = Accesses(file)
      BY <2>7 DEF ReplayInv
    <3>2. IsPrefix(delivered, delivered)
      BY <2>2 DEF IsPrefix
    <3> QED
      BY <3>1, <3>2
  <2> QED
    BY <2>2, <2>6, <2>7
<1>2. ProgSpec => []ReplayInv
  BY ReplayInit, ReplayNext, ProgramCorrect, PTL DEF ProgSpec
<1> QED
  BY <1>1, <1>2, ProgramCorrect, PTL
=============================================================================
