------------------------- MODULE PluginEngineProofs -------------------------
(***************************************************************************)
(* What holds of the plugin engine for every set of names, versions, tasks *)
(* and loaders, every image of a module and every width of the integers    *)
(* that WidthAssumption admits, 65536, 2^32 and 2^64 among them.           *)
(***************************************************************************)
EXTENDS PluginEngine, FiniteSetTheorems, TLAPS

-----------------------------------------------------------------------------
(* A quotient and a remainder are what they are defined to be.              *)
LEMMA DivisionUnique ==
    ASSUME NEW a \in Int, NEW b \in Nat, b > 0,
           NEW q \in Int, NEW r \in 0..(b - 1), a = b * q + r
    PROVE  a \div b = q /\ a % b = r
OBVIOUS

LEMMA Division ==
    ASSUME NEW a \in Int, NEW b \in Nat, b > 0
    PROVE  /\ a \div b \in Int /\ a % b \in 0..(b - 1)
           /\ a = b * (a \div b) + (a % b)
OBVIOUS

LEMMA ProductMonotone ==
    ASSUME NEW a \in Nat, NEW b \in Nat, NEW c \in Nat
    PROVE  /\ c * a \in Nat
           /\ a <= b => c * a <= c * b
           /\ a < b => c * a + c <= c * b
OBVIOUS

(* 32 bits address MaxPages pages to the byte, and two pages at least.      *)
LEMMA AddressSpace ==
    /\ MaxPages \in Nat /\ MaxPages > 2
    /\ Wrap32 = PageSize * MaxPages
    /\ Wrap32 \in Nat /\ Wrap32 > 16 /\ Wrap64 > 2 * Wrap32
<1> DEFINE half == Wrap32 \div (2 * PageSize)
<1>1. /\ PageSize \in Nat /\ PageSize > 8 /\ 2 * PageSize \in Nat /\ 2 * PageSize > 0
      /\ Wrap32 \in Nat /\ Wrap32 > 2 * PageSize /\ Wrap64 \in Nat /\ Wrap64 > 2 * Wrap32
      /\ Wrap32 % (2 * PageSize) = 0
  BY WidthAssumption
<1>2. half \in Int /\ Wrap32 = (2 * PageSize) * half
  BY <1>1, Division
<1> HIDE DEF half
<1>3. 2 * half \in Int /\ Wrap32 = PageSize * (2 * half) + 0
  BY <1>1, <1>2
<1>4. MaxPages = 2 * half
  BY <1>1, <1>3, DivisionUnique DEF MaxPages
<1>5. half > 1
  BY <1>1, <1>2
<1> QED BY <1>1, <1>2, <1>3, <1>4, <1>5

(* The casts there and back: an i32 of at least 0 keeps its value in 64     *)
(* bits; one below 0 lands in the upper half of what 64 bits address.       *)
LEMMA SignExtension ==
    ASSUME NEW i \in Int, -Wrap32 <= i, i < Wrap32
    PROVE  /\ i >= 0 => AsU64(i) = i
           /\ i < 0 => AsU64(i) > Wrap32
<1>1. Wrap32 \in Nat /\ Wrap64 \in Nat /\ Wrap64 > 2 * Wrap32
  BY WidthAssumption
<1>2. CASE i >= 0
  BY <1>1, <1>2, DivisionUnique, i = Wrap64 * 0 + i DEF AsU64
<1>3. CASE i < 0
  <2>1. i = Wrap64 * (-1) + (i + Wrap64) /\ i + Wrap64 \in 0..(Wrap64 - 1)
    BY <1>1, <1>3
  <2>2. AsU64(i) = i + Wrap64
    BY <1>1, <2>1, DivisionUnique DEF AsU64
  <2> QED BY <1>1, <1>3, <2>2
<1> QED BY <1>2, <1>3

(* An offset that 32 bits address is the i32 itself, or negative.           *)
LEMMA OffsetCast ==
    ASSUME NEW n \in Nat, n < Wrap32
    PROVE  (AsI32(n) = n /\ 2 * n < Wrap32) \/ (AsI32(n) \in Int /\ AsI32(n) < 0 /\ AsI32(n) >= -Wrap32)
<1>1. Wrap32 \in Nat /\ Wrap32 > 0
  BY WidthAssumption
<1>2. n % Wrap32 = n
  BY <1>1, DivisionUnique, n = Wrap32 * 0 + n
<1> QED BY <1>1, <1>2 DEF AsI32

Memory == [pages : 0..MaxPages, limit : 0..MaxPages]

(* A write that succeeds keeps the memory within its limit and never        *)
(* shrinks it; and while a page is left to address, the string lies behind  *)
(* all the memory there was, inside what there is now.                      *)
LEMMA WriteIntact ==
    ASSUME NEW memory \in Memory, NEW length \in Nat, WriteString(memory, length).ok
    PROVE  LET written == WriteString(memory, length)
           IN  /\ written.memory \in Memory
               /\ written.memory.limit = memory.limit
               /\ memory.pages <= written.memory.pages
               /\ written.memory.pages <= memory.limit
               /\ memory.pages < MaxPages =>
                     /\ written.offset = memory.pages * PageSize + 8
                     /\ 2 * written.offset < Wrap32
                     /\ written.offset + length <= written.memory.pages * PageSize
<1> DEFINE offset == AsI32(memory.pages * PageSize + 8)
           needed == NeededPages(offset, length)
           pages  == IF needed > memory.pages THEN needed ELSE memory.pages
<1>1. /\ memory.pages \in Nat /\ memory.limit \in Nat
      /\ memory.pages <= MaxPages /\ memory.limit <= MaxPages
      /\ PageSize \in Nat /\ PageSize > 8 /\ MaxPages \in Nat /\ Wrap64 \in Nat /\ Wrap64 > 0
      /\ Wrap32 = PageSize * MaxPages /\ Wrap32 \in Nat /\ Wrap32 > 16
  BY AddressSpace, WidthAssumption DEF Memory
<1>2. /\ WriteString(memory, length).ok
             = (pages <= memory.limit /\ AsU64(offset) + length <= pages * PageSize)
      /\ WriteString(memory, length).offset = offset
      /\ WriteString(memory, length).memory = [memory EXCEPT !.pages = pages]
  BY DEF WriteString
<1>3. memory.pages * PageSize + 8 \in Nat
  BY <1>1, ProductMonotone
<1>4. offset \in Int /\ AsU64(offset) \in Nat
  <2>1. offset \in Int
    <3>1. (memory.pages * PageSize + 8) % Wrap32 \in Int
      BY <1>1, <1>3, Division
    <3> QED BY <1>1, <3>1 DEF AsI32
  <2>2. offset % Wrap64 \in 0..(Wrap64 - 1)
    BY <1>1, <2>1, Division
  <2> QED BY <2>1, <2>2 DEF AsU64
<1>5. needed \in Nat
  <2> DEFINE end == (AsU64(offset) + length) % Wrap64
  <2>1. end \in Nat
    BY <1>1, <1>4, Division
  <2>2. end \div PageSize \in Nat
    BY <1>1, <2>1
  <2> QED BY <2>2 DEF NeededPages
<1> HIDE DEF needed, offset
<1>6. pages \in Nat /\ memory.pages <= pages
  BY <1>1, <1>5
<1>7. pages <= memory.limit /\ AsU64(offset) + length <= pages * PageSize
  BY <1>2
<1>8. /\ [memory EXCEPT !.pages = pages] \in Memory
      /\ [memory EXCEPT !.pages = pages].limit = memory.limit
      /\ [memory EXCEPT !.pages = pages].pages = pages
  BY <1>1, <1>6, <1>7 DEF Memory
<1>9. ASSUME memory.pages < MaxPages
      PROVE  /\ offset = memory.pages * PageSize + 8 /\ 2 * offset < Wrap32
             /\ offset + length <= pages * PageSize
  <2>1. PageSize * memory.pages + PageSize <= PageSize * MaxPages
    BY <1>1, <1>9, ProductMonotone
  <2>2. memory.pages * PageSize + 8 < Wrap32
    BY <1>1, <2>1
  <2>3. \/ offset = memory.pages * PageSize + 8 /\ 2 * offset < Wrap32
        \/ offset < 0 /\ offset >= -Wrap32
    BY <1>3, <2>2, OffsetCast DEF offset
  <2>4. pages * PageSize <= Wrap32
    <3>1. pages <= MaxPages
      BY <1>1, <1>6, <1>7
    <3> QED BY <1>1, <1>6, <3>1, ProductMonotone
  <2>5. ~(offset < 0)
    <3> SUFFICES ASSUME offset < 0 PROVE FALSE
      OBVIOUS
    <3>1. AsU64(offset) > Wrap32
      BY <1>1, <1>3, <1>4, <2>3, SignExtension
    <3>2. pages * PageSize \in Nat
      BY <1>1, <1>6, ProductMonotone
    <3> QED BY <1>1, <1>4, <1>7, <2>4, <3>1, <3>2
  <2>6. AsU64(offset) = offset
    BY <1>1, <1>3, <1>4, <2>2, <2>3, <2>5, SignExtension
  <2> QED BY <1>7, <2>3, <2>5, <2>6
<1> QED BY <1>2, <1>6, <1>7, <1>8, <1>9

(* A length below 2^31 is the i32 itself.                                   *)
LEMMA LengthCast ==
    ASSUME NEW n \in Nat, 2 * n < Wrap32
    PROVE  AsI32(n) = n
<1>1. Wrap32 \in Nat /\ Wrap32 > 0
  BY WidthAssumption
<1>2. n % Wrap32 = n
  BY <1>1, DivisionUnique, n = Wrap32 * 0 + n
<1> QED BY <1>2 DEF AsI32

(* A plugin that is called finds its strings in place and is told their     *)
(* lengths, whatever the image, unless the request has taken the last page  *)
(* that 32 bits address or the configuration half of what they address.     *)
LEMMA CalledIsPlaced ==
    ASSUME NEW image \in Images, NEW length \in Nat, NEW configLength \in Nat,
           Called(image, length, configLength)
    PROVE  LET told == Arguments(image, length, configLength)
           IN  \/ Request(image, length).memory.pages = MaxPages
               \/ /\ Placed(image, length, configLength)
                  /\ told.requestLength = length
                  /\ told.configLength = configLength \/ 2 * configLength >= Wrap32
<1> DEFINE memory  == [pages |-> image.pages, limit |-> image.limit]
           request == Request(image, length)
           config  == Config(image, length, configLength)
<1>1. memory \in Memory
  BY DEF Memory, Images
<1>2. request = WriteString(memory, length) /\ request.ok
  BY DEF Request, Called
<1>3. config = WriteString(request.memory, configLength) /\ config.ok
  BY DEF Config, Called
<1>4. MaxPages \in Nat /\ PageSize \in Nat
  BY AddressSpace, WidthAssumption
<1> HIDE DEF memory, request, config
<1>5. /\ request.memory \in Memory
      /\ request.memory.limit = memory.limit
      /\ memory.pages <= request.memory.pages
      /\ memory.pages < MaxPages =>
            /\ request.offset = memory.pages * PageSize + 8
            /\ request.offset + length <= request.memory.pages * PageSize
  BY <1>1, <1>2, WriteIntact
<1>6. /\ config.memory.pages <= request.memory.limit
      /\ request.memory.pages < MaxPages =>
            /\ config.offset = request.memory.pages * PageSize + 8
            /\ 2 * config.offset < Wrap32
            /\ config.offset + configLength <= config.memory.pages * PageSize
  BY <1>3, <1>5, WriteIntact
<1>7. SUFFICES ASSUME request.memory.pages # MaxPages
               PROVE  /\ Placed(image, length, configLength)
                      /\ AsI32(length) = length
                      /\ AsI32(configLength) = configLength \/ 2 * configLength >= Wrap32
  BY DEF request, Arguments
<1>8. /\ memory.pages \in Nat /\ memory.pages < MaxPages
      /\ request.memory.pages \in Nat /\ request.memory.pages < MaxPages
  BY <1>1, <1>4, <1>5, <1>7 DEF Memory
<1>9. memory.pages * PageSize \in Nat /\ request.memory.pages * PageSize \in Nat
  BY <1>4, <1>8, ProductMonotone
<1>10. /\ request.offset >= memory.pages * PageSize
       /\ config.offset >= request.offset + length
       /\ config.offset + configLength <= config.memory.pages * PageSize
       /\ config.memory.pages <= memory.limit
  <2> DEFINE first == memory.pages * PageSize  second == request.memory.pages * PageSize
  <2> HIDE DEF first, second
  <2>1. first \in Nat /\ second \in Nat /\ request.offset = first + 8
        /\ request.offset + length <= second /\ config.offset = second + 8
    BY <1>5, <1>6, <1>8, <1>9 DEF first, second
  <2>2. request.offset >= first /\ config.offset >= request.offset + length
    BY <2>1
  <2> QED BY <1>5, <1>6, <1>8, <2>2 DEF first
<1>11. memory.pages = image.pages /\ memory.limit = image.limit
  BY DEF memory
<1>12. Placed(image, length, configLength)
  BY <1>10, <1>11 DEF Placed, Arguments, request, config
<1>13. 2 * length < Wrap32
  <2>1. request.offset \in Nat /\ config.offset \in Nat /\ Wrap32 \in Nat
    BY <1>5, <1>6, <1>8, <1>9, WidthAssumption
  <2> QED BY <1>6, <1>8, <1>10, <2>1
<1>14. 2 * configLength < Wrap32 \/ 2 * configLength >= Wrap32
  BY WidthAssumption
<1> QED BY <1>12, <1>13, <1>14, LengthCast

-----------------------------------------------------------------------------
(* What the threads have in hand, by the stage they are at.                 *)
OperationInHand ==
    \A l \in Loaders :
        /\ pc[l] \in {"check", "remove_plugin", "remove_config", "compile",
                      "insert_plugin", "insert_config"} => op[l].name \in Names
        /\ pc[l] \in {"check", "compile", "insert_plugin", "insert_config"} =>
              op[l].version \in Versions

(* A caller's guard keeps the entries it has yet to execute in the map.     *)
Held(c) ==
    /\ pc[c] = "idle" => guards[c] = None /\ todo[c] = {}
    /\ pc[c] \in {"config", "executing"} =>
          current[c] \in todo[c] /\ guards[c] = Shard[current[c]]
    /\ pc[c] = "executing" => \E e \in ran[c] : e.name = current[c]
    /\ \A n \in todo[c] : Shard[n] = guards[c] => plugins[n] # None

GuardsHold == \A c \in Callers : Held(c)

EngineInv == EngineTypeOK /\ OperationInHand /\ GuardsHold

Operations == [name : Names \cup {None}, version : Versions \cup {None},
               files : SUBSET Directory, touched : SUBSET Names, loaded : SUBSET Names]

(* Going on to a stage of its own moves one thread and keeps the types.     *)
LEMMA LoaderGoes ==
    ASSUME EngineTypeOK, NEW l \in Loaders, NEW stage \in LoaderStages, Goto(l, stage)
    PROVE  /\ pc' \in [Loaders \cup Callers -> LoaderStages \cup CallerStages]
           /\ pc'[l] = stage
           /\ \A m \in Loaders : pc'[m] \in LoaderStages /\ (m # l => pc'[m] = pc[m])
           /\ \A c \in Callers : pc'[c] \in CallerStages /\ pc'[c] = pc[c]
BY EngineAssumption DEF EngineTypeOK, Goto

LEMMA CallerGoes ==
    ASSUME EngineTypeOK, NEW c \in Callers, NEW stage \in CallerStages, Goto(c, stage)
    PROVE  /\ pc' \in [Loaders \cup Callers -> LoaderStages \cup CallerStages]
           /\ pc'[c] = stage
           /\ \A l \in Loaders : pc'[l] \in LoaderStages /\ pc'[l] = pc[l]
           /\ \A d \in Callers : pc'[d] \in CallerStages /\ (d # c => pc'[d] = pc[d])
BY EngineAssumption DEF EngineTypeOK, Goto

LEMMA EngineInitOK == EngineInit => EngineInv
BY EngineAssumption DEF EngineInit, EngineInv, EngineTypeOK, OperationInHand, GuardsHold, Held,
   Operation, LoaderStages, CallerStages

(* The operation that a thread starts with.                                 *)
LEMMA StartTypes ==
    ASSUME EngineTypeOK, NEW l \in Loaders, NEW operation \in Operations,
           NEW stage \in LoaderStages, NEW loads \in Nat, Start(l, operation, stage, loads)
    PROVE  EngineTypeOK' /\ op'[l] = operation
<1>1. op' \in [Loaders -> Operations] /\ op'[l] = operation
  BY DEF Start, EngineTypeOK, Operations
<1>2. started' \in 0..MaxLoads
  BY EngineAssumption DEF Start, EngineTypeOK
<1> QED BY <1>1, <1>2, LoaderGoes DEF Start, EngineTypeOK, Operations, callerVars

(* The load of a directory starts with as many loads as there are files.    *)
LEMMA DirectoryLoads ==
    ASSUME NEW files \in SUBSET Directory
    PROVE  Cardinality(files) \in Nat
BY EngineAssumption, FS_Subset, FS_CardinalityType

(* Every step of a loader keeps the types.                                  *)
LEMMA LoaderTypes ==
    ASSUME EngineTypeOK, OperationInHand, NEW l \in Loaders, LoaderStep(l)
    PROVE  EngineTypeOK'
<1> USE DEF Operations
<1>1. op[l] \in Operations /\ op \in [Loaders -> Operations]
  BY DEF EngineTypeOK
<1>2. CASE NextFile(l)
  <2>1. PICK file \in op[l].files :
           op' = [op EXCEPT ![l].name = file.name, ![l].version = file.version,
                            ![l].files = @ \ {file}, ![l].touched = @ \cup {file.name}]
    BY <1>2 DEF NextFile
  <2>2. file \in [name : Names, version : Versions]
    BY <1>1, EngineAssumption
  <2>3. op' \in [Loaders -> Operations]
    BY <1>1, <2>1, <2>2
  <2> QED BY <1>2, <2>3, LoaderGoes DEF NextFile, EngineTypeOK, callerVars, LoaderStages
<1>3. CASE NoMoreFiles(l)
  BY <1>3, LoaderGoes DEF NoMoreFiles, EngineTypeOK, callerVars, LoaderStages
<1>4. CASE CheckLoaded(l)
  BY <1>4, LoaderGoes DEF CheckLoaded, EngineTypeOK, callerVars, LoaderStages
<1>5. CASE RemovePlugin(l)
  BY <1>5, LoaderGoes DEF RemovePlugin, EngineTypeOK, callerVars, LoaderStages
<1>6. CASE RemoveConfig(l)
  BY <1>6, LoaderGoes DEF RemoveConfig, AfterUnload, EngineTypeOK, callerVars, LoaderStages
<1>7. CASE Compile(l)
  BY <1>7, LoaderGoes DEF Compile, LoadEnds, EngineTypeOK, callerVars, LoaderStages
<1>8. CASE InsertPlugin(l)
  BY <1>8, LoaderGoes DEF InsertPlugin, OperationInHand, EngineTypeOK, callerVars, LoaderStages
<1>9. CASE InsertConfig(l)
  <2>1. op[l].name \in Names /\ op[l].version \in Versions
    BY <1>9 DEF InsertConfig, OperationInHand
  <2>2. op' = [op EXCEPT ![l] = [op[l] EXCEPT !.loaded = op[l].loaded \cup {op[l].name}]]
    BY <1>9 DEF InsertConfig
  <2>3. op' \in [Loaders -> Operations]
    BY <1>1, <2>1, <2>2
  <2>4. configs' \in [Names -> Versions \cup {None}]
    BY <1>9, <2>1 DEF InsertConfig, EngineTypeOK
  <2> QED BY <1>9, <2>3, <2>4, LoaderGoes DEF InsertConfig, LoadEnds, EngineTypeOK, callerVars, LoaderStages
<1> QED BY <1>2, <1>3, <1>4, <1>5, <1>6, <1>7, <1>8, <1>9 DEF LoaderStep

(* Every step of a caller keeps the types.                                  *)
LEMMA CallerTypes ==
    ASSUME EngineTypeOK, GuardsHold, NEW c \in Callers, CallerStep(c)
    PROVE  EngineTypeOK'
<1>1. CASE EnterShard(c)
  BY <1>1 DEF EnterShard, EngineTypeOK, loaderVars
<1>2. CASE NextEntry(c)
  BY <1>2, CallerGoes DEF NextEntry, EngineTypeOK, loaderVars, CallerStages
<1>3. CASE NoMoreEntries(c)
  BY <1>3, CallerGoes DEF NoMoreEntries, EngineTypeOK, loaderVars, CallerStages
<1>4. CASE ReadConfig(c)
  <2> DEFINE e == [name |-> current[c], plugin |-> plugins[current[c]], config |-> configs[current[c]]]
  <2>1. current[c] \in todo[c] /\ guards[c] = Shard[current[c]] /\ current[c] \in Names
        /\ plugins[current[c]] # None
    BY <1>4 DEF ReadConfig, GuardsHold, Held, EngineTypeOK
  <2>2. e \in [name : Names, plugin : Versions, config : Versions \cup {None}]
    BY <2>1 DEF EngineTypeOK
  <2>3. ran' = [ran EXCEPT ![c] = ran[c] \cup {e}]
    BY <1>4 DEF ReadConfig
  <2> HIDE DEF e
  <2>4. ran' \in [Callers -> SUBSET [name : Names, plugin : Versions, config : Versions \cup {None}]]
    BY <2>2, <2>3 DEF EngineTypeOK
  <2> QED BY <1>4, <2>4, CallerGoes DEF ReadConfig, EngineTypeOK, loaderVars, CallerStages
<1>5. CASE Returns(c)
  BY <1>5, CallerGoes DEF Returns, Ends, EngineTypeOK, loaderVars, CallerStages
<1>6. CASE Panics(c)
  BY <1>6, CallerGoes DEF Panics, EngineTypeOK, loaderVars, CallerStages
<1> QED BY <1>1, <1>2, <1>3, <1>4, <1>5, <1>6 DEF CallerStep

-----------------------------------------------------------------------------
(* The steps of one thread.                                                 *)
OfLoader(l) ==
    \/ \E n \in Names, v \in Versions : StartLoad(l, n, v)
    \/ \E n \in Names : StartUnload(l, n)
    \/ StartLoadDir(l) \/ LoaderStep(l)

OfCaller(c) == (\E n \in Names : StartExecute(c, n)) \/ StartExecuteAll(c) \/ CallerStep(c)

LEMMA NextIsAThread ==
    EngineNext => (\E l \in Loaders : OfLoader(l)) \/ (\E c \in Callers : OfCaller(c))
BY DEF EngineNext, OfLoader, OfCaller

(* A loader leaves the callers where they are, and changes an entry of the  *)
(* plugins map only under the write lock of its shard.                      *)
LEMMA LoaderEffect ==
    ASSUME EngineInv, NEW l \in Loaders, OfLoader(l)
    PROVE  /\ UNCHANGED callerVars
           /\ \A c \in Callers : pc'[c] = pc[c]
           /\ \A m \in Loaders : m # l => pc'[m] = pc[m] /\ op'[m] = op[m]
           /\ \A n \in Names : Writable(n) \/ plugins'[n] = plugins[n]
<1>1. UNCHANGED callerVars /\ \E stage : Goto(l, stage)
  BY DEF OfLoader, StartLoad, StartUnload, StartLoadDir, Start, LoaderStep, NextFile, NoMoreFiles,
     CheckLoaded, RemovePlugin, RemoveConfig, Compile, LoadEnds, InsertPlugin, InsertConfig
<1>2. \A t \in Loaders \cup Callers : t # l => pc'[t] = pc[t]
  BY <1>1 DEF Goto, EngineInv, EngineTypeOK
<1>3. \A m \in Loaders : m # l => op'[m] = op[m]
  BY DEF OfLoader, StartLoad, StartUnload, StartLoadDir, Start, LoaderStep, NextFile, NoMoreFiles,
     CheckLoaded, RemovePlugin, RemoveConfig, Compile, LoadEnds, InsertPlugin, InsertConfig,
     EngineInv, EngineTypeOK
<1>4. \A n \in Names : Writable(n) \/ plugins'[n] = plugins[n]
  BY DEF OfLoader, StartLoad, StartUnload, StartLoadDir, Start, LoaderStep, NextFile, NoMoreFiles,
     CheckLoaded, RemovePlugin, RemoveConfig, Compile, LoadEnds, InsertPlugin, InsertConfig,
     EngineInv, EngineTypeOK
<1> QED BY <1>1, <1>2, <1>3, <1>4, EngineAssumption

(* A caller leaves the loaders, the maps and the other callers alone.       *)
LEMMA CallerEffect ==
    ASSUME EngineInv, NEW c \in Callers, OfCaller(c)
    PROVE  /\ UNCHANGED loaderVars
           /\ \A l \in Loaders : pc'[l] = pc[l]
           /\ \A d \in Callers : d # c =>
                 /\ pc'[d] = pc[d] /\ guards'[d] = guards[d] /\ todo'[d] = todo[d]
                 /\ current'[d] = current[d] /\ ran'[d] = ran[d]
<1>1. UNCHANGED loaderVars
  BY DEF OfCaller, StartExecute, StartExecuteAll, CallerStep, EnterShard, NextEntry, NoMoreEntries,
     ReadConfig, Returns, Panics, Ends
<1>2. (\E stage : Goto(c, stage)) \/ pc' = pc
  BY DEF OfCaller, StartExecute, StartExecuteAll, CallerStep, EnterShard, NextEntry, NoMoreEntries,
     ReadConfig, Returns, Panics, Ends
<1>3. \A t \in Loaders \cup Callers : t # c => pc'[t] = pc[t]
  BY <1>2 DEF Goto, EngineInv, EngineTypeOK
<1>4. \A d \in Callers : d # c => /\ guards'[d] = guards[d] /\ todo'[d] = todo[d]
                                  /\ current'[d] = current[d] /\ ran'[d] = ran[d]
  BY DEF OfCaller, StartExecute, StartExecuteAll, CallerStep, EnterShard, NextEntry, NoMoreEntries,
     ReadConfig, Returns, Panics, Ends, EngineInv, EngineTypeOK
<1> QED BY <1>1, <1>3, <1>4, EngineAssumption

LEMMA TypeStep == EngineInv /\ [EngineNext]_engineVars => EngineTypeOK'
<1> SUFFICES ASSUME EngineInv, [EngineNext]_engineVars PROVE EngineTypeOK'
  OBVIOUS
<1> USE DEF EngineInv
<1>1. ASSUME NEW l \in Loaders, OfLoader(l) PROVE EngineTypeOK'
  <2>1. ASSUME NEW n \in Names, NEW v \in Versions, StartLoad(l, n, v) PROVE EngineTypeOK'
    BY <2>1, StartTypes DEF StartLoad, Operation, Operations, LoaderStages
  <2>2. ASSUME NEW n \in Names, StartUnload(l, n) PROVE EngineTypeOK'
    BY <2>2, StartTypes DEF StartUnload, Operation, Operations, LoaderStages
  <2>3. ASSUME StartLoadDir(l) PROVE EngineTypeOK'
    <3>1. PICK files \in SUBSET Directory :
             Start(l, Operation(None, None, files, {}), "next_file", Cardinality(files))
      BY <2>3 DEF StartLoadDir
    <3>2. Operation(None, None, files, {}) \in Operations
      BY DEF Operation, Operations
    <3> QED BY <3>1, <3>2, StartTypes, DirectoryLoads DEF LoaderStages
  <2> QED BY <1>1, <2>1, <2>2, <2>3, LoaderTypes DEF OfLoader
<1>2. ASSUME NEW c \in Callers, OfCaller(c) PROVE EngineTypeOK'
  <2>1. ASSUME NEW n \in Names, StartExecute(c, n) PROVE EngineTypeOK'
    <3>1. CASE plugins[n] = None
      BY <2>1, <3>1, CallerGoes DEF StartExecute, EngineTypeOK, loaderVars, CallerStages
    <3>2. CASE plugins[n] # None
      <4>1. /\ guards' \in [Callers -> {Shard[m] : m \in Names} \cup {None}]
            /\ todo' \in [Callers -> SUBSET Names]
            /\ current' \in [Callers -> Names \cup {None}]
        BY <2>1, <3>2, SMTT(20) DEF StartExecute, EngineTypeOK
      <4> QED BY <2>1, <3>2, <4>1, CallerGoes DEF StartExecute, EngineTypeOK, loaderVars, CallerStages
    <3> QED BY <3>1, <3>2
  <2>2. ASSUME StartExecuteAll(c) PROVE EngineTypeOK'
    BY <2>2, CallerGoes DEF StartExecuteAll, EngineTypeOK, loaderVars, CallerStages
  <2> QED BY <1>2, <2>1, <2>2, CallerTypes DEF OfCaller
<1>3. CASE UNCHANGED engineVars
  BY <1>3 DEF EngineTypeOK, engineVars
<1> QED BY <1>1, <1>2, <1>3, NextIsAThread

(* A loader has a name, and but for an unload a version, from the start of  *)
(* a load to its end.                                                       *)
LEMMA InHandStep == EngineInv /\ [EngineNext]_engineVars => OperationInHand'
<1> SUFFICES ASSUME EngineInv, [EngineNext]_engineVars PROVE OperationInHand'
  OBVIOUS
<1> USE DEF EngineInv
<1>1. ASSUME NEW l \in Loaders, OfLoader(l) PROVE OperationInHand'
  <2>1. SUFFICES /\ pc'[l] \in {"check", "remove_plugin", "remove_config", "compile",
                                "insert_plugin", "insert_config"} => op'[l].name \in Names
                 /\ pc'[l] \in {"check", "compile", "insert_plugin", "insert_config"} =>
                        op'[l].version \in Versions
    BY <1>1, LoaderEffect DEF OperationInHand
  <2>2. ASSUME NEW n \in Names, NEW v \in Versions, StartLoad(l, n, v)
        PROVE  op'[l].name = n /\ op'[l].version = v
    BY <2>2 DEF StartLoad, Start, Operation, EngineTypeOK
  <2>3. ASSUME NEW n \in Names, StartUnload(l, n)
        PROVE  op'[l].name = n /\ pc'[l] = "remove_plugin"
    BY <2>3 DEF StartUnload, Start, Operation, Goto, EngineTypeOK
  <2>4. ASSUME StartLoadDir(l) PROVE pc'[l] = "next_file"
    BY <2>4 DEF StartLoadDir, Start, Goto, EngineTypeOK
  <2>5. ASSUME NextFile(l) PROVE op'[l].name \in Names /\ op'[l].version \in Versions
    <3>1. PICK file \in op[l].files :
             op' = [op EXCEPT ![l].name = file.name, ![l].version = file.version,
                              ![l].files = @ \ {file}, ![l].touched = @ \cup {file.name}]
      BY <2>5 DEF NextFile
    <3>2. file.name \in Names /\ file.version \in Versions
      BY EngineAssumption DEF EngineTypeOK
    <3> QED BY <3>1, <3>2 DEF EngineTypeOK
  <2>6. ASSUME NoMoreFiles(l) PROVE pc'[l] = "idle"
    BY <2>6 DEF NoMoreFiles, Goto, EngineTypeOK
  <2>7. ASSUME CheckLoaded(l) PROVE pc[l] = "check" /\ op' = op
    BY <2>7 DEF CheckLoaded
  <2>8. ASSUME RemovePlugin(l)
        PROVE  op' = op /\ pc[l] = "remove_plugin" /\ pc'[l] = "remove_config"
    BY <2>8 DEF RemovePlugin, Goto, EngineTypeOK
  <2>9. ASSUME RemoveConfig(l)
        PROVE  /\ op' = op /\ pc[l] = "remove_config"
               /\ pc'[l] = IF op[l].version = None THEN "idle" ELSE "compile"
    BY <2>9 DEF RemoveConfig, AfterUnload, Goto, EngineTypeOK
  <2>10. ASSUME Compile(l) PROVE op' = op /\ pc[l] = "compile"
    BY <2>10 DEF Compile
  <2>11. ASSUME InsertPlugin(l) PROVE op' = op /\ pc[l] = "insert_plugin"
    BY <2>11 DEF InsertPlugin
  <2>12. ASSUME InsertConfig(l) PROVE pc'[l] \in {"idle", "next_file"}
    BY <2>12 DEF InsertConfig, LoadEnds, Goto, EngineTypeOK
  <2>13. op[l].version \in Versions \cup {None}
    BY DEF EngineTypeOK
  <2> QED BY <1>1, <2>2, <2>3, <2>4, <2>5, <2>6, <2>7, <2>8, <2>9, <2>10, <2>11, <2>12, <2>13
          DEF OfLoader, LoaderStep, OperationInHand
<1>2. ASSUME NEW c \in Callers, OfCaller(c) PROVE OperationInHand'
  BY <1>2, CallerEffect DEF OperationInHand, loaderVars
<1>3. CASE UNCHANGED engineVars
  BY <1>3 DEF OperationInHand, engineVars
<1> QED BY <1>1, <1>2, <1>3, NextIsAThread

(* What a caller has found in the map stays there while it holds the guard. *)
LEMMA GuardsStep == EngineInv /\ [EngineNext]_engineVars => GuardsHold'
<1> SUFFICES ASSUME EngineInv, [EngineNext]_engineVars PROVE GuardsHold'
  OBVIOUS
<1> USE DEF EngineInv
<1>1. ASSUME NEW l \in Loaders, OfLoader(l) PROVE GuardsHold'
  <2>1. ASSUME NEW c \in Callers, NEW n \in todo[c], Shard[n] = guards[c]
        PROVE  plugins'[n] # None
    <3>1. n \in Names /\ ~Writable(n) /\ plugins[n] # None
      BY <2>1 DEF Writable, EngineTypeOK, GuardsHold, Held
    <3> QED BY <1>1, <3>1, LoaderEffect
  <2> QED BY <1>1, <2>1, LoaderEffect DEF GuardsHold, Held, callerVars
<1>2. ASSUME NEW c \in Callers, OfCaller(c) PROVE GuardsHold'
  <2>1. SUFFICES Held(c)'
    BY <1>2, CallerEffect DEF GuardsHold, Held, loaderVars
  <2>2. ASSUME NEW n \in Names, StartExecute(c, n) PROVE Held(c)'
    BY <2>2 DEF Held, StartExecute, Goto, EngineTypeOK, GuardsHold, loaderVars
  <2>3. ASSUME StartExecuteAll(c) PROVE Held(c)'
    BY <2>3, EngineAssumption DEF Held, StartExecuteAll, Goto, EngineTypeOK, GuardsHold, loaderVars
  <2>4. ASSUME EnterShard(c) PROVE Held(c)'
    BY <2>4 DEF Held, EnterShard, EngineTypeOK, GuardsHold, loaderVars
  <2>5. ASSUME NextEntry(c) PROVE Held(c)'
    BY <2>5 DEF Held, NextEntry, Goto, EngineTypeOK, GuardsHold, loaderVars
  <2>6. ASSUME NoMoreEntries(c) PROVE Held(c)'
    BY <2>6 DEF Held, NoMoreEntries, Goto, EngineTypeOK, GuardsHold, loaderVars
  <2>7. ASSUME ReadConfig(c) PROVE Held(c)'
    <3> DEFINE e == [name |-> current[c], plugin |-> plugins[current[c]], config |-> configs[current[c]]]
    <3>1. e.name = current[c] /\ e \in ran'[c] /\ current'[c] = current[c]
      BY <2>7 DEF ReadConfig, EngineTypeOK
    <3>2. \E d \in ran'[c] : d.name = current'[c]
      BY <3>1
    <3> HIDE DEF e
    <3> QED BY <2>7, <3>2 DEF Held, ReadConfig, Goto, EngineTypeOK, GuardsHold, loaderVars
  <2>8. ASSUME Returns(c) PROVE Held(c)'
    BY <2>8 DEF Held, Returns, Ends, Goto, EngineTypeOK, GuardsHold, loaderVars
  <2>9. ASSUME Panics(c) PROVE Held(c)'
    BY <2>9 DEF Held, Panics, Goto, EngineTypeOK, GuardsHold, loaderVars
  <2> QED BY <1>2, <2>2, <2>3, <2>4, <2>5, <2>6, <2>7, <2>8, <2>9 DEF OfCaller, CallerStep
<1>3. CASE UNCHANGED engineVars
  BY <1>3 DEF GuardsHold, Held, engineVars
<1> QED BY <1>1, <1>2, <1>3, NextIsAThread

LEMMA EngineInvStep == EngineInv /\ [EngineNext]_engineVars => EngineInv'
BY TypeStep, InHandStep, GuardsStep DEF EngineInv

(* The engine's inductive invariant, for any number of loaders: what the    *)
(* loaders have in hand is a load, and what a caller has found in the map   *)
(* stays there while it holds the guard.                                    *)
THEOREM EngineInductive == EngineSpec => []EngineInv
BY EngineInitOK, EngineInvStep, PTL DEF EngineSpec

(* The state of the engine keeps its types.                                 *)
THEOREM EngineTypeCorrect == EngineSpec => []EngineTypeOK
BY EngineInductive, PTL DEF EngineInv

(* A plugin that is called finds its strings whole and is told their        *)
(* lengths, for every image, every request and every width of the integers: *)
(* write_string and the casts of execute.  Excepted are a memory without a  *)
(* page left to address and a configuration of 2^31 bytes or more, told as  *)
(* a negative length; a request of that length is never passed on.          *)
THEOREM StringsWhole == EngineSpec => []StringsIntact
<1>1. EngineInv => StringsIntact
  <2> SUFFICES ASSUME EngineInv, NEW c \in Callers, pc[c] = "executing"
               PROVE  LET image == Running(c)
                          bytes == ConfigBytes(c)
                          told  == Arguments(image, RequestLength, bytes)
                      IN  Called(image, RequestLength, bytes) =>
                             \/ Request(image, RequestLength).memory.pages = MaxPages
                             \/ /\ Placed(image, RequestLength, bytes)
                                /\ told.requestLength = RequestLength
                                /\ told.configLength = bytes \/ 2 * bytes >= Wrap32
    BY DEF StringsIntact
  <2>1. /\ current[c] \in Names /\ ran[c] \in SUBSET [name : Names, plugin : Versions,
                                                     config : Versions \cup {None}]
        /\ \E e \in ran[c] : e.name = current[c]
    BY DEF EngineInv, EngineTypeOK, GuardsHold, Held
  <2>2. Execution(c) \in ran[c]
    BY <2>1 DEF Execution
  <2>3. /\ Execution(c).plugin \in Versions
        /\ Execution(c).config \in Versions \cup {None}
    BY <2>1, <2>2
  <2>4. Running(c) \in Images /\ ConfigBytes(c) \in Nat /\ RequestLength \in Nat
    BY <2>1, <2>3, EngineAssumption DEF Running, ConfigBytes, Bytes
  <2> QED BY <2>4, CalledIsPlaced
<1> QED BY <1>1, EngineInductive, PTL

(* Unloading or replacing a plugin waits for the calls that execute it:     *)
(* remove and insert take the write lock of the shard that the call reads.  *)
THEOREM RunningPluginStays == EngineSpec => RunningStaysLoaded
<1>1. ASSUME EngineInv, [EngineNext]_engineVars,
             NEW c \in Callers, pc[c] = "executing"
      PROVE  plugins'[current[c]] = plugins[current[c]]
  <2>1. current[c] \in Names /\ ~Writable(current[c])
    BY <1>1 DEF EngineInv, EngineTypeOK, GuardsHold, Held, Writable
  <2>2. ASSUME NEW l \in Loaders, OfLoader(l) PROVE plugins'[current[c]] = plugins[current[c]]
    BY <1>1, <2>1, <2>2, LoaderEffect
  <2>3. ASSUME NEW d \in Callers, OfCaller(d) PROVE plugins' = plugins
    BY <1>1, <2>3, CallerEffect DEF loaderVars
  <2> QED BY <1>1, <2>2, <2>3, NextIsAThread DEF engineVars
<1>2. EngineInv /\ [EngineNext]_engineVars =>
         [\A c \in Callers : (pc[c] = "executing" /\ pc'[c] = "executing") =>
             plugins'[current[c]] = plugins[current[c]]]_engineVars
  BY <1>1
<1> QED BY <1>2, EngineInductive, PTL DEF EngineSpec, RunningStaysLoaded

(* execute_all is through with a name only when it has run, or was not in   *)
(* the map when its shard was entered, or a plugin has panicked.            *)
THEOREM NoEntrySkipped == EngineSpec => NoneSkipped
<1>1. ASSUME EngineInv, [EngineNext]_engineVars,
             NEW c \in Callers, NEW n \in todo[c] \ todo'[c]
      PROVE  \/ plugins[n] = None
             \/ pc'[c] = "panicked"
             \/ \E e \in ran[c] : e.name = n
  <2>1. ASSUME NEW l \in Loaders, OfLoader(l) PROVE todo' = todo
    BY <1>1, <2>1, LoaderEffect DEF callerVars
  <2>2. OfCaller(c)
    BY <1>1, <2>1, NextIsAThread, CallerEffect DEF engineVars
  <2>3. n \in Names /\ pc[c] # "idle"
    BY <1>1 DEF EngineInv, EngineTypeOK, GuardsHold, Held
  <2>4. CASE EnterShard(c)
    BY <2>3, <2>4, <1>1 DEF EnterShard, EngineInv, EngineTypeOK
  <2>5. CASE Returns(c)
    BY <2>5, <1>1 DEF Returns, Ends, EngineInv, EngineTypeOK, GuardsHold, Held
  <2>6. CASE Panics(c)
    BY <2>6, <1>1 DEF Panics, Goto, EngineInv, EngineTypeOK
  <2>7. NextEntry(c) \/ NoMoreEntries(c) \/ ReadConfig(c) => n \in todo'[c]
    BY <1>1 DEF NextEntry, NoMoreEntries, ReadConfig
  <2> QED BY <1>1, <2>2, <2>3, <2>4, <2>5, <2>6, <2>7
          DEF OfCaller, StartExecute, StartExecuteAll, CallerStep
<1>2. EngineInv /\ [EngineNext]_engineVars =>
         [\A c \in Callers : \A n \in todo[c] \ todo'[c] :
             \/ plugins[n] = None
             \/ pc'[c] = "panicked"
             \/ \E e \in ran[c] : e.name = n]_engineVars
  BY <1>1
<1> QED BY <1>2, EngineInductive, PTL DEF EngineSpec, NoneSkipped

-----------------------------------------------------------------------------
(* The rest is about an engine that one thread loads, as the directory's    *)
(* loop does.  Loads of a name in two threads may interleave their writes   *)
(* to the two maps, and then neither statement holds.                       *)
OneLoader == \A l, m \in Loaders : l = m

(* The maps differ only for the name that a loader is between two writes of.*)
Behind(l, n) ==
    /\ op[l].name = n
    /\ \/ pc[l] = "remove_config" /\ plugins[n] = None
       \/ pc[l] = "insert_config" /\ plugins[n] = op[l].version /\ configs[n] = None

MapsAgree == \A n \in Names : plugins[n] = configs[n] \/ \E l \in Loaders : Behind(l, n)

(* What the loader has counted is what is there, but for the name in hand,  *)
(* which it comes to but once.                                              *)
CountedSoFar(l) ==
    /\ op[l].loaded \subseteq op[l].touched
    /\ \A f, g \in op[l].files : f.name = g.name => f = g
    /\ \A f \in op[l].files : f.name \notin op[l].touched
    /\ pc[l] \in {"idle", "next_file"} =>
          \A n \in op[l].touched : (n \in op[l].loaded) = (plugins[n] # None)
    /\ pc[l] \notin {"idle", "next_file"} =>
          /\ op[l].name \in op[l].touched \ op[l].loaded
          /\ \A n \in op[l].touched \ {op[l].name} : (n \in op[l].loaded) = (plugins[n] # None)
    /\ pc[l] \in {"remove_config", "compile", "insert_plugin"} => plugins[op[l].name] = None
    /\ pc[l] = "insert_config" => plugins[op[l].name] = op[l].version

ReportOf(l) ==
    (\A n \in Names : plugins[n] = configs[n] \/ Behind(l, n)) /\ CountedSoFar(l)

ReportInv == MapsAgree /\ NoForeignConfig /\ \A l \in Loaders : CountedSoFar(l)

LEMMA ReportInit == EngineInit => ReportInv
BY DEF EngineInit, ReportInv, MapsAgree, NoForeignConfig, CountedSoFar, Operation

(* With one loader a step of it is the only one that touches the maps.      *)
LEMMA ReportLoaderStep ==
    ASSUME OneLoader, EngineInv, EngineInv', ReportInv, NEW l \in Loaders, OfLoader(l)
    PROVE  ReportInv'
<1>1. NoForeignConfig'
  BY LoaderEffect DEF ReportInv, NoForeignConfig, callerVars
<1>2. /\ op[l] \in Operations /\ op \in [Loaders -> Operations] /\ l \in DOMAIN pc
      /\ plugins \in [Names -> Versions \cup {None}] /\ configs \in [Names -> Versions \cup {None}]
      /\ None \notin Versions
  BY EngineAssumption DEF EngineInv, EngineTypeOK, Operations
<1>3. \A m \in Loaders : m = l
  BY DEF OneLoader
<1>4. ReportOf(l)
  BY <1>3 DEF ReportInv, MapsAgree, ReportOf
<1>5. SUFFICES ReportOf(l)'
  BY <1>1, <1>3 DEF ReportInv, MapsAgree, ReportOf
<1>6. OperationInHand
  BY DEF EngineInv
<1> USE DEF ReportOf, Behind, CountedSoFar
<1>7. ASSUME NEW n \in Names, NEW v \in Versions, StartLoad(l, n, v) PROVE ReportOf(l)'
  BY <1>2, <1>4, <1>7 DEF StartLoad, Start, Operation, Goto
<1>8. ASSUME NEW n \in Names, StartUnload(l, n) PROVE ReportOf(l)'
  BY <1>2, <1>4, <1>8 DEF StartUnload, Start, Operation, Goto
<1>9. ASSUME StartLoadDir(l) PROVE ReportOf(l)'
  <2>1. PICK files \in SUBSET Directory :
           /\ \A f, g \in files : f.name = g.name => f = g
           /\ Start(l, Operation(None, None, files, {}), "next_file", Cardinality(files))
    BY <1>9 DEF StartLoadDir
  <2> QED BY <1>2, <1>4, <2>1 DEF Start, Operation, Goto
<1>10. ASSUME NextFile(l) PROVE ReportOf(l)'
  <2>1. PICK file \in op[l].files :
           op' = [op EXCEPT ![l].name = file.name, ![l].version = file.version,
                            ![l].files = @ \ {file}, ![l].touched = @ \cup {file.name}]
    BY <1>10 DEF NextFile
  <2>2. /\ op'[l].name = file.name /\ op'[l].version = file.version
        /\ op'[l].files = op[l].files \ {file} /\ op'[l].touched = op[l].touched \cup {file.name}
        /\ op'[l].loaded = op[l].loaded
    BY <1>2, <2>1 DEF Operations
  <2>3. pc[l] = "next_file" /\ pc'[l] = "check" /\ UNCHANGED <<plugins, configs>>
    BY <1>2, <1>10 DEF NextFile, Goto
  <2> QED BY <1>4, <2>2, <2>3
<1>11. ASSUME NoMoreFiles(l) PROVE ReportOf(l)'
  BY <1>2, <1>4, <1>11 DEF NoMoreFiles, Goto
<1>12. ASSUME CheckLoaded(l) PROVE ReportOf(l)'
  BY <1>2, <1>4, <1>12 DEF CheckLoaded, Goto
<1>13. ASSUME RemovePlugin(l) PROVE ReportOf(l)'
  BY <1>2, <1>4, <1>6, <1>13 DEF RemovePlugin, Goto, OperationInHand
<1>14. ASSUME RemoveConfig(l) PROVE ReportOf(l)'
  BY <1>2, <1>4, <1>6, <1>14 DEF RemoveConfig, AfterUnload, Goto, OperationInHand
<1>15. ASSUME Compile(l) PROVE ReportOf(l)'
  BY <1>2, <1>4, <1>15 DEF Compile, LoadEnds, Goto
<1>16. ASSUME InsertPlugin(l) PROVE ReportOf(l)'
  BY <1>2, <1>4, <1>6, <1>16 DEF InsertPlugin, Goto, OperationInHand
<1>17. ASSUME InsertConfig(l) PROVE ReportOf(l)'
  <2>1. /\ op'[l].name = op[l].name /\ op'[l].files = op[l].files
        /\ op'[l].touched = op[l].touched /\ op'[l].loaded = op[l].loaded \cup {op[l].name}
    BY <1>2, <1>17 DEF InsertConfig, Operations
  <2>2. /\ pc[l] = "insert_config" /\ pc'[l] \in {"idle", "next_file"}
        /\ plugins' = plugins /\ configs' = [configs EXCEPT ![op[l].name] = op[l].version]
    BY <1>2, <1>17 DEF InsertConfig, LoadEnds, Goto
  <2>3. op[l].name \in Names /\ op[l].version \in Versions
    BY <1>6, <2>2 DEF OperationInHand
  <2> QED BY <1>2, <1>4, <2>1, <2>2, <2>3
<1> QED BY <1>7, <1>8, <1>9, <1>10, <1>11, <1>12, <1>13, <1>14, <1>15, <1>16, <1>17
        DEF OfLoader, LoaderStep

LEMMA ReportStep ==
    ASSUME OneLoader, EngineInv, EngineInv', ReportInv, [EngineNext]_engineVars
    PROVE  ReportInv'
<1>1. ASSUME NEW l \in Loaders, OfLoader(l) PROVE ReportInv'
  BY <1>1, ReportLoaderStep
<1>2. ASSUME NEW c \in Callers, OfCaller(c) PROVE ReportInv'
  <2>1. MapsAgree' /\ \A l \in Loaders : CountedSoFar(l)'
    BY <1>2, CallerEffect DEF ReportInv, MapsAgree, Behind, CountedSoFar, loaderVars
  <2>2. CASE ReadConfig(c)
    <3> DEFINE n == current[c]
               e == [name |-> n, plugin |-> plugins[n], config |-> configs[n]]
    <3>1. n \in Names /\ plugins[n] # None
      BY <2>2 DEF ReadConfig, EngineInv, EngineTypeOK, GuardsHold, Held
    <3>2. e.config \in {e.plugin, None}
      BY <3>1 DEF ReportInv, MapsAgree, Behind
    <3>3. ran' = [ran EXCEPT ![c] = ran[c] \cup {e}]
      BY <2>2 DEF ReadConfig
    <3> HIDE DEF e
    <3>4. NoForeignConfig'
      BY <3>2, <3>3 DEF NoForeignConfig, ReportInv, EngineInv, EngineTypeOK
    <3> QED BY <2>1, <3>4 DEF ReportInv
  <2>3. CASE ran' = ran
    BY <2>1, <2>3 DEF ReportInv, NoForeignConfig
  <2> QED BY <1>2, <2>2, <2>3
          DEF OfCaller, StartExecute, StartExecuteAll, CallerStep, EnterShard, NextEntry,
              NoMoreEntries, Returns, Panics, Ends
<1>3. CASE UNCHANGED engineVars
  BY <1>3 DEF ReportInv, MapsAgree, NoForeignConfig, Behind, CountedSoFar, engineVars
<1> QED BY <1>1, <1>2, <1>3, NextIsAThread

LEMMA ReportInductive == ASSUME OneLoader PROVE EngineSpec => []ReportInv
BY ReportInit, ReportStep, EngineInductive, PTL DEF EngineSpec

(* With one loader, a plugin never runs with the configuration of another   *)
(* load of its name, whatever reload interleaves with the call.             *)
THEOREM OwnConfigOrNone == ASSUME OneLoader PROVE EngineSpec => []NoForeignConfig
BY ReportInductive, PTL DEF ReportInv

(* With one loader, what a load, a directory's load or an unload reports is *)
(* what the engine then holds, also when some of the files fail.            *)
THEOREM ReportsAreTrue == ASSUME OneLoader PROVE EngineSpec => []ReportIsTrue
<1>1. EngineInv /\ ReportInv => ReportIsTrue
  <2> SUFFICES ASSUME EngineInv, ReportInv, NEW l \in Loaders, pc[l] = "idle"
               PROVE  /\ plugins = configs
                      /\ \A n \in op[l].touched : (n \in op[l].loaded) = (plugins[n] # None)
    BY DEF ReportIsTrue
  <2>1. \A n \in Names : plugins[n] = configs[n]
    BY DEF ReportInv, MapsAgree, Behind, OneLoader
  <2>2. plugins \in [Names -> Versions \cup {None}] /\ configs \in [Names -> Versions \cup {None}]
    BY DEF EngineInv, EngineTypeOK
  <2> QED BY <2>1, <2>2 DEF ReportInv, CountedSoFar
<1> QED BY <1>1, ReportInductive, EngineInductive, PTL
=============================================================================
