---------------------------- MODULE MemoryCache ----------------------------
(***************************************************************************)
(* The bus of the X-Makina machine and the memory cache behind it          *)
(* (Memory_access_handling.cpp), together with everything else in the      *)
(* program that touches primary memory or the cache settings: the cache    *)
(* menu, the loader, closing a program, and the debugger's memory editor   *)
(* and opcode test.                                                        *)
(*                                                                         *)
(* One bus access is one action: bus() runs to completion before any other *)
(* part of this single-threaded program looks at memory.  Inside an action *)
(* the calls of memory_bus are folded over a bus state                     *)
(*                                                                         *)
(*   [mem |-> memory, mar |-> MAR, mbr |-> MBR,                            *)
(*    run |-> what the access adds to run_clk (and sys_clk),               *)
(*    cmp |-> what it adds to comparison_clk by itself]                    *)
(*                                                                         *)
(* in the order the code makes them.  The clocks are unbounded counters no *)
(* bus access reads, so only the charges of one access are computed; every *)
(* instruction sets MAR just before it calls bus(), so MAR is an argument. *)
(***************************************************************************)
EXTENDS Words

CONSTANTS
  CacheSize,       \* CACHE_SIZE
  PageLines,       \* HYBRID_LINES_IN_PAGE
  Overrun,         \* what the bytes behind the cache array may spell as a line
  Organisations,   \* the organisations the menu offers
  Policies,        \* the replacement policies the menu offers
  Edited,          \* the byte addresses the memory editor is used on
  Features         \* the debugger services in use, beyond loading and running

ASSUME CacheAssumption ==
  /\ CacheSize \in Nat \ {0}
  /\ PageLines \in Nat \ {0}
  /\ CacheSize = PageLines * (CacheSize \div PageLines)      \* whole pages

OFF == 0                            \* DISABLED in the code
ON  == 1                            \* ENABLED, which TLA+ reserves
DIRECT        == 0
ASSOCIATIVE   == 1
HYBRID        == 2
WRITE_THROUGH == 0
WRITE_BACK    == 1

ASSUME MenuAssumption ==
  /\ Organisations \subseteq {DIRECT, ASSOCIATIVE, HYBRID}
  /\ Policies \subseteq {WRITE_THROUGH, WRITE_BACK}
  /\ Edited \subseteq ByteAddr
  /\ Features \subseteq {"opcode_test", "reload"}

HIT  == 0
MISS == 2
HIT_READ   == 0
HIT_WRITE  == 1
MISS_READ  == 2
MISS_WRITE == 3

MEMORY_ACCESS_CLK_INC    == 3
CACHE_MEM_ACCESS_CLK_INC == 1

Slots                == 0..(CacheSize - 1)
MAX_LRU_VALUE        == CacheSize - 1
MAX_HYBRID_LRU_VALUE == PageLines - 1

Unmapped == 0                       \* the address of a line that maps nothing

Line == [address : WordAddr, contents : Word, dirty : 0..1, lru : 0..MAX_LRU_VALUE]

Blank == [address |-> Unmapped, contents |-> Zero, dirty |-> 0, lru |-> 0]

\* The bytes behind the array are other globals: never the address of a word
\* the cache is asked for.
ASSUME OverrunAssumption ==
  \A line \in Overrun : line \in Line /\ line.address < DeviceWords

VARIABLES
  memory,          \* primary memory, by word
  memory_cache,    \* the cache lines
  cache_options,   \* the cache settings
  loaded,          \* a program name is set: the program can be run
  MBR              \* the data register of the bus

vars == <<memory, memory_cache, cache_options, loaded, MBR>>

ResetOptions == [op_control |-> OFF, mem_org |-> DIRECT, policy |-> WRITE_THROUGH]

Init ==
  /\ memory = [w \in WordAddr |-> Zero]
  /\ memory_cache = [i \in Slots |-> Blank]
  /\ cache_options = ResetOptions
  /\ loaded = FALSE
  /\ MBR = Zero

-----------------------------------------------------------------------------
(***************************************************************************)
(* The primary memory bus, away from the device ports.                     *)
(***************************************************************************)

memory_bus(s, word_byte_control, read_write_control) ==
  LET w == WORD_ADDR_CONV(s.mar)
      t == [s EXCEPT !.run = @ + MEMORY_ACCESS_CLK_INC]
  IN  IF read_write_control = READ
      THEN [t EXCEPT !.mbr = Get(s.mem[w], s.mar, word_byte_control)]
      ELSE [t EXCEPT !.mem = [s.mem EXCEPT ![w] = Put(@, s.mar, word_byte_control, s.mbr)]]

Compare(s, clk) == [s EXCEPT !.cmp = @ + clk]

(***************************************************************************)
(* The replacement policies: from a line and a bus state to the line and   *)
(* the bus state after the access.                                         *)
(***************************************************************************)

Outcome(line, s) == [line |-> line, bus |-> s]

Fill(line, s) == [line EXCEPT !.address = WORD_ADDR_CONV(s.mar), !.contents = s.mbr]

\* (Mutant of Store: a byte write replaces the whole line.)
StoreWord(line, s, size) == [line EXCEPT !.contents = s.mbr]

Store(line, s, size) == [line EXCEPT !.contents = Put(@, s.mar, size, s.mbr)]

\* (Mutant of ReadLine: a byte read returns the whole word.)
ReadWholeLine(line, s, size) ==
  Outcome(line, Compare([s EXCEPT !.mbr = line.contents], MEMORY_ACCESS_CLK_INC))

\* Case HIT_READ of both policies, where MISS_READ cascades down to.
ReadLine(line, s, size) ==
  Outcome(line, Compare([s EXCEPT !.mbr = Get(line.contents, s.mar, size)],
                        MEMORY_ACCESS_CLK_INC))

write_through_policy(line, s, size, access_status) ==
  CASE access_status = MISS_WRITE ->
         LET t == memory_bus(memory_bus(s, size, WRITE), WORD, READ)
         IN  Outcome(Fill(line, t), Compare(t, -MEMORY_ACCESS_CLK_INC))
    [] access_status = HIT_WRITE ->
         Outcome(Store(line, s, size), memory_bus(s, size, WRITE))
    [] access_status = MISS_READ ->
         LET t == memory_bus(s, WORD, READ)
         IN  ReadLine(Fill(line, t), Compare(t, -MEMORY_ACCESS_CLK_INC), size)
    [] access_status = HIT_READ ->
         ReadLine(line, s, size)

\* (Mutant of ServiceDirty: the comparison clock is not corrected.)
ServiceDirtyUncompared(line, s) ==
  IF line.dirty = 0 THEN s
  ELSE LET t == memory_bus([s EXCEPT !.mar = BYTE_ADDR_CONV(line.address),
                                     !.mbr = line.contents], WRITE, WORD)
       IN  [t EXCEPT !.mar = s.mar]

\* Servicing the dirty bit.  The code names the two arguments of memory_bus in
\* the other order, memory_bus(WRITE, WORD), and so they arrive here.
ServiceDirty(line, s) ==
  IF line.dirty = 0 THEN s
  ELSE LET t == memory_bus([s EXCEPT !.mar = BYTE_ADDR_CONV(line.address),
                                     !.mbr = line.contents], WRITE, WORD)
       IN  Compare([t EXCEPT !.mar = s.mar], -MEMORY_ACCESS_CLK_INC)

\* Case HIT_WRITE, where MISS_WRITE cascades down to.
WriteLine(line, s, size) ==
  Outcome([Store(line, s, size) EXCEPT !.dirty = 1], Compare(s, MEMORY_ACCESS_CLK_INC))

write_back_policy(line, s, size, access_status) ==
  CASE access_status = MISS_WRITE ->
         LET served == [ServiceDirty(line, s) EXCEPT !.mbr = s.mbr]
             read   == memory_bus(served, READ, WORD)
             mapped == [line EXCEPT !.address = WORD_ADDR_CONV(s.mar)]
         IN  IF size = BYTE
             THEN WriteLine([mapped EXCEPT !.contents = read.mbr],
                            Compare([read EXCEPT !.mbr = s.mbr], -MEMORY_ACCESS_CLK_INC),
                            size)
             ELSE WriteLine(mapped, served, size)
    [] access_status = HIT_WRITE ->
         WriteLine(line, s, size)
    [] access_status = MISS_READ ->
         LET t == memory_bus(ServiceDirty(line, s), READ, WORD)
         IN  ReadLine(Fill([line EXCEPT !.dirty = 0], t),
                      Compare(t, -MEMORY_ACCESS_CLK_INC), size)
    [] access_status = HIT_READ ->
         ReadLine(line, s, size)

replacement_policy(policy, line, s, size, access_status) ==
  IF policy = WRITE_THROUGH THEN write_through_policy(line, s, size, access_status)
                            ELSE write_back_policy(line, s, size, access_status)

-----------------------------------------------------------------------------
(***************************************************************************)
(* The organisations: which line an access uses, and how lines age.        *)
(* "lines" is the array the code indexes: the cache, or in hybrid mapping  *)
(* the cache and one line of whatever lies behind it.                      *)
(***************************************************************************)

\* The set of the first element of S.
First(S) == {i \in S : \A j \in S : i <= j}

\* (Mutant of Candidates: the search stops at the first line it could replace.)
FirstUsable(lines, slots, w, limit) ==
  LET usable == {i \in slots : lines[i].address = w \/ lines[i].lru < limit}
  IN  IF usable # {} THEN First(usable) ELSE slots

\* Every slot the search over "slots" may leave in cache_index: the first hit,
\* or else the first of the least recently used lines.  When no line is below
\* the limit the code leaves cache_index uninitialised; any slot stands for it.
Candidates(lines, slots, w, limit) ==
  LET hits  == {i \in slots : lines[i].address = w}
      young == {i \in slots : lines[i].lru < limit}
      least == {i \in young : \A j \in young : lines[i].lru <= lines[j].lru}
  IN  IF hits # {} THEN First(hits)
      ELSE IF young # {} THEN First(least)
      ELSE slots

\* (Mutants of Aged: lines as old as the one used age too; no line ages; every
\* line ages.)
AgedAsOld(lines, slots, i, limit) ==
  [j \in DOMAIN lines |->
     IF j = i THEN [lines[j] EXCEPT !.lru = limit]
     ELSE IF j \in slots /\ lines[j].lru >= lines[i].lru
          THEN [lines[j] EXCEPT !.lru = @ - 1]
     ELSE lines[j]]
AgedNever(lines, slots, i, limit) == [lines EXCEPT ![i].lru = limit]
AgedAlways(lines, slots, i, limit) ==
  [j \in DOMAIN lines |->
     IF j = i THEN [lines[j] EXCEPT !.lru = limit]
     ELSE IF j \in slots /\ lines[j].lru > 0 THEN [lines[j] EXCEPT !.lru = @ - 1]
     ELSE lines[j]]

\* The lines after the access: those more recent than the line used are aged.
Aged(lines, slots, i, limit) ==
  [j \in DOMAIN lines |->
     IF j = i THEN [lines[j] EXCEPT !.lru = limit]
     ELSE IF j \in slots /\ lines[j].lru > lines[i].lru
          THEN [lines[j] EXCEPT !.lru = @ - 1]
     ELSE lines[j]]

HybridPages == CacheSize \div PageLines
Page(w)     == (w \div PageLines) % HybridPages

\* The loop bound is i <= starting_addr + HYBRID_LINES_IN_PAGE.
HybridSlots(w) ==
  LET starting_addr == Page(w) * PageLines
  IN  starting_addr..(starting_addr + PageLines)

ChargeCache(s) == [s EXCEPT !.run = @ + CACHE_MEM_ACCESS_CLK_INC,
                            !.cmp = @ - CACHE_MEM_ACCESS_CLK_INC]

\* What is common to the organisations: the policy is applied to the line
\* found, the cache access is charged, and the registers are left as it leaves
\* them.
ApplyPolicy(lines, i, mar, size, rw, data) ==
  LET w      == WORD_ADDR_CONV(mar)
      status == (IF lines[i].address = w THEN HIT ELSE MISS) + rw
      start  == [mem |-> memory, mar |-> mar, mbr |-> data, run |-> 0, cmp |-> 0]
      r      == replacement_policy(cache_options.policy, lines[i], start, size, status)
  IN  Outcome(r.line, ChargeCache(r.bus))

\* The state after an access that leaves "lines" in the cache and "s" on the
\* bus.  A line written behind the array is some other variable's loss.
Settle(lines, s) ==
  /\ memory' = s.mem
  /\ memory_cache' = [i \in Slots |-> lines[i]]
  /\ MBR' = s.mbr
  /\ UNCHANGED <<cache_options, loaded>>

\* An instruction reaches the bus when a program runs, or when the debugger
\* tests a single opcode.
CanExecute == loaded \/ "opcode_test" \in Features

\* Reads find the previous data in MBR, writes what the instruction puts there.
Inputs(rw) == IF rw = READ THEN {MBR} ELSE Data

Cached(mem_org, mar) ==
  /\ CanExecute
  /\ cache_options.op_control = ON
  /\ cache_options.mem_org = mem_org
  /\ ~IsDevice(mar)

direct_mapping(mar, size, rw, data) ==
  LET cache_index == WORD_ADDR_CONV(mar) % CacheSize
      r == ApplyPolicy(memory_cache, cache_index, mar, size, rw, data)
  IN  /\ Cached(DIRECT, mar)
      /\ Settle([memory_cache EXCEPT ![cache_index] = r.line], r.bus)

associative_mapping(mar, size, rw, data) ==
  /\ Cached(ASSOCIATIVE, mar)
  /\ \E cache_index \in Candidates(memory_cache, Slots, WORD_ADDR_CONV(mar), MAX_LRU_VALUE) :
       LET r == ApplyPolicy(memory_cache, cache_index, mar, size, rw, data)
       IN  Settle(Aged([memory_cache EXCEPT ![cache_index] = r.line],
                       Slots, cache_index, MAX_LRU_VALUE), r.bus)

hybrid_mapping(mar, size, rw, data) ==
  /\ Cached(HYBRID, mar)
  /\ \E behind \in Overrun :
       LET lines == [i \in 0..CacheSize |-> IF i \in Slots THEN memory_cache[i] ELSE behind]
           slots == HybridSlots(WORD_ADDR_CONV(mar))
       IN  \E cache_index \in Candidates(lines, slots, WORD_ADDR_CONV(mar), MAX_HYBRID_LRU_VALUE) :
             LET r == ApplyPolicy(lines, cache_index, mar, size, rw, data)
             IN  Settle(Aged([lines EXCEPT ![cache_index] = r.line],
                             slots, cache_index, MAX_HYBRID_LRU_VALUE), r.bus)

\* bus() with the cache switched off.
uncached_access(mar, size, rw, data) ==
  LET s == memory_bus([mem |-> memory, mar |-> mar, mbr |-> data, run |-> 0, cmp |-> 0],
                      size, rw)
  IN  /\ CanExecute
      /\ cache_options.op_control = OFF
      /\ ~IsDevice(mar)
      /\ Settle(memory_cache, s)

\* bus() at a device port: what the port holds afterwards is the device's
\* business (device_memory_access), so it may be any word.
port_access(mar, size, rw, data) ==
  LET w == WORD_ADDR_CONV(mar)
  IN  /\ CanExecute
      /\ IsDevice(mar)
      /\ memory' \in {[memory EXCEPT ![w] = word] : word \in Data}
      /\ MBR' = IF rw = READ THEN Get(memory[w], mar, size) ELSE data
      /\ UNCHANGED <<memory_cache, cache_options, loaded>>

\* device_management() between two instructions, and device_init() from the
\* menu, write port words directly.
device_update(w, word) ==
  /\ w < DeviceWords
  /\ memory' = [memory EXCEPT ![w] = word]
  /\ UNCHANGED <<memory_cache, cache_options, loaded, MBR>>

-----------------------------------------------------------------------------
(***************************************************************************)
(* The debugger and the loader.  The cache menu configures the cache only  *)
(* while no program is loaded.                                             *)
(***************************************************************************)

\* (Mutant of toggle_cache: initialize_cache is not called.)
toggle_keeps_lines ==
  /\ ~loaded
  /\ cache_options' = [cache_options EXCEPT
                         !.op_control = IF @ = OFF THEN ON ELSE OFF]
  /\ UNCHANGED <<memory, memory_cache, loaded, MBR>>

toggle_cache ==
  /\ ~loaded
  /\ memory_cache' = [i \in Slots |-> Blank]
  /\ cache_options' = [cache_options EXCEPT
                         !.op_control = IF @ = OFF THEN ON ELSE OFF]
  /\ UNCHANGED <<memory, loaded, MBR>>

change_cache_org(org) ==
  /\ ~loaded
  /\ cache_options' = [cache_options EXCEPT !.mem_org = org]
  /\ UNCHANGED <<memory, memory_cache, loaded, MBR>>

toggle_policy ==
  /\ ~loaded
  /\ LET other == IF cache_options.policy = WRITE_THROUGH THEN WRITE_BACK ELSE WRITE_THROUGH
     IN  /\ other \in Policies
         /\ cache_options' = [cache_options EXCEPT !.policy = other]
  /\ UNCHANGED <<memory, memory_cache, loaded, MBR>>

\* A file without a name record, or one given up half way, may leave its words
\* in memory and no program name.
loader(image, named) ==
  /\ ~loaded \/ "reload" \in Features
  /\ memory' = Overlay(memory, image)
  /\ loaded' = (loaded \/ named)
  /\ UNCHANGED <<memory_cache, cache_options, MBR>>

\* The lines keep what they hold; the cache is switched off.
close_program ==
  /\ memory' = [w \in WordAddr |-> Zero]
  /\ cache_options' = ResetOptions
  /\ loaded' = FALSE
  /\ UNCHANGED <<memory_cache, MBR>>

change_mem_content(mar, data) ==
  /\ mar \in Edited
  /\ memory' = [memory EXCEPT ![WORD_ADDR_CONV(mar)] = Put(@, mar, BYTE, data)]
  /\ UNCHANGED <<memory_cache, cache_options, loaded, MBR>>

-----------------------------------------------------------------------------
bus(mar, size, rw, data) ==
  \/ uncached_access(mar, size, rw, data)
  \/ port_access(mar, size, rw, data)
  \/ direct_mapping(mar, size, rw, data)
  \/ associative_mapping(mar, size, rw, data)
  \/ hybrid_mapping(mar, size, rw, data)

\* Everything else that touches memory, the lines or the settings.
Service ==
  \/ \E w \in WordAddr, word \in Data : device_update(w, word)
  \/ toggle_cache
  \/ \E org \in Organisations : change_cache_org(org)
  \/ toggle_policy
  \/ \E image \in Images, named \in BOOLEAN : loader(image, named)
  \/ close_program
  \/ \E mar \in ByteAddr, data \in Data : change_mem_content(mar, data)

Next ==
  \/ \E mar \in ByteAddr, size \in Sizes, rw \in Kinds :
       \E data \in Inputs(rw) : bus(mar, size, rw, data)
  \/ Service

Spec == Init /\ [][Next]_vars

-----------------------------------------------------------------------------
(***************************************************************************)
(* Properties.                                                             *)
(***************************************************************************)

TypeOK ==
  /\ memory \in [WordAddr -> Word]
  /\ memory_cache \in [Slots -> Line]
  /\ cache_options \in [op_control : {OFF, ON},
                        mem_org    : {DIRECT, ASSOCIATIVE, HYBRID},
                        policy     : {WRITE_THROUGH, WRITE_BACK}]
  /\ loaded \in BOOLEAN
  /\ MBR \in Word

CacheOn == cache_options.op_control = ON

Mapped(i) == CacheOn /\ memory_cache[i].address # Unmapped

\* The words that the memory editor, or a load over a loaded program, may change
\* behind the cache.
Exposed ==
  {WORD_ADDR_CONV(mar) : mar \in Edited}
    \cup IF "reload" \in Features THEN UNION {DOMAIN image : image \in Images} ELSE {}

\* Write-through "will always be consistent with primary memory": while the
\* cache is on and writes through, every mapped line holds the word that
\* primary memory holds at its address (write_through_policy).
WriteThroughConsistent ==
  cache_options.policy = WRITE_THROUGH =>
    \A i \in Slots :
      Mapped(i) /\ memory_cache[i].address \notin Exposed =>
        memory_cache[i].contents = memory[memory_cache[i].address]

\* The dirty bit tells the truth under both policies: a mapped line whose bit
\* is clear may be dropped at once, because memory holds the same word.
CleanLinesConsistent ==
  \A i \in Slots :
    Mapped(i) /\ memory_cache[i].dirty = 0 /\ memory_cache[i].address \notin Exposed =>
      memory_cache[i].contents = memory[memory_cache[i].address]

\* A clean line that does not hold what memory holds at its address.
Stale(w) ==
  \E i \in Slots : /\ Mapped(i) /\ memory_cache[i].dirty = 0
                  /\ memory_cache[i].address = w /\ memory_cache[i].contents # memory[w]

\* The memory editor, and a load over a program, write memory behind the cache.
\* The damage stays with the words it happened to: whatever accesses,
\* replacements and settings follow, no other word goes stale, switching the
\* cache off and on brings no old line back, and a word write heals its word.
EditsContained ==
  [][\A w \in WordAddr :
       /\ Stale(w)' /\ ~Stale(w) =>
            \/ \E mar \in ByteAddr, data \in Data : change_mem_content(mar, data)
            \/ \E image \in Images, named \in BOOLEAN : loader(image, named)
       /\ Stale(w)' /\ Stale(w) =>
            ~\E data \in Data : bus(BYTE_ADDR_CONV(w), WORD, WRITE, data)]_vars

\* No word is mapped twice: two copies would diverge at the next write.
UniqueMapping ==
  \A i, j \in Slots :
    Mapped(i) /\ Mapped(j) /\ memory_cache[i].address = memory_cache[j].address => i = j

\* Where the search for a word looks, by organisation.
SearchSlots(mem_org, w) ==
  CASE mem_org = DIRECT      -> {w % CacheSize}
    [] mem_org = ASSOCIATIVE -> Slots
    [] mem_org = HYBRID      -> HybridSlots(w)

\* The inductive form of the two: the cache is empty until a program is loaded;
\* a mapped line lies where the search for its word will look; no word is
\* mapped twice; a clean line equals memory, and write-through leaves no line
\* dirty.
CacheInvariant ==
  /\ CacheOn /\ ~loaded => \A i \in Slots : memory_cache[i] = Blank
  /\ \A i \in Slots : Mapped(i) =>
       /\ memory_cache[i].address >= DeviceWords
       /\ i \in SearchSlots(cache_options.mem_org, memory_cache[i].address)
  /\ UniqueMapping
  /\ CleanLinesConsistent
  /\ CacheOn /\ cache_options.policy = WRITE_THROUGH =>
       \A i \in Slots : memory_cache[i].dirty = 0

\* The analytics page compares sys_clk with the clock of a machine without
\* cache.  Every policy corrects comparison_clk by hand on every path; from any
\* state the program reaches, the corrections of the next access add up to
\* exactly one memory access, whatever the cache has to do for it.
ClockAccounting ==
  \A mar \in ByteAddr, size \in Sizes, rw \in Kinds, i \in Slots :
    LET s == ApplyPolicy(memory_cache, i, mar, size, rw, MBR).bus
    IN  CacheOn /\ ~IsDevice(mar) => s.run + s.cmp = MEMORY_ACCESS_CLK_INC

OwnSlots(w) == (Page(w) * PageLines)..(Page(w) * PageLines + PageLines - 1)

\* A search that misses always finds a line, and in hybrid mapping one of the
\* page's own: the fifth line the loop visits is never the one replaced, and
\* cache_index is never left uninitialised.
VictimExists ==
  CacheOn =>
    /\ cache_options.mem_org = ASSOCIATIVE =>
         \E i \in Slots : memory_cache[i].lru < MAX_LRU_VALUE
    /\ cache_options.mem_org = HYBRID =>
         \A w \in WordAddr, behind \in Overrun :
           w >= DeviceWords =>
             Candidates([i \in 0..CacheSize |-> IF i \in Slots THEN memory_cache[i] ELSE behind],
                        HybridSlots(w), w, MAX_HYBRID_LRU_VALUE) \subseteq OwnSlots(w)

MappedWords == {memory_cache[i].address : i \in Slots} \ {Unmapped}

\* What a program sees at an address: the line that maps it, or memory.
View ==
  [w \in WordAddr |->
     IF \E i \in Slots : Mapped(i) /\ memory_cache[i].address = w
     THEN memory_cache[CHOOSE i \in Slots : Mapped(i) /\ memory_cache[i].address = w].contents
     ELSE memory[w]]

Flat == INSTANCE FlatMemory WITH flat <- View, out <- MBR

\* With write-through the cache is invisible: the machine implements the flat
\* memory it would have without one, through every hit, miss, eviction, reload
\* of settings and device update.
ImplementsFlatMemory == Flat!Spec

\* From any state the program reaches, with direct or associative mapping, the
\* next read returns the addressed byte or word as it was last written, from
\* whichever line the search chooses, on a hit and on a miss.
ReadsReturnView ==
  LET seen == View
      Choice(w) == IF cache_options.mem_org = DIRECT THEN {w % CacheSize}
                   ELSE Candidates(memory_cache, Slots, w, MAX_LRU_VALUE)
  IN  \A mar \in ByteAddr, size \in Sizes :
        CacheOn /\ cache_options.mem_org # HYBRID /\ ~IsDevice(mar) =>
          \A i \in Choice(WORD_ADDR_CONV(mar)) :
            ApplyPolicy(memory_cache, i, mar, size, READ, MBR).bus.mbr =
              Get(seen[WORD_ADDR_CONV(mar)], mar, size)

\* A word written under write-back "will only be written back to primary memory
\* once that line needs to be re-mapped": while a program runs, one access
\* changes what the program sees at one address at most.
WriteBackKeepsData ==
  [][loaded /\ loaded' =>
       \E a \in WordAddr : \A w \in WordAddr \ {a} : View'[w] = View[w]]_vars
=============================================================================
