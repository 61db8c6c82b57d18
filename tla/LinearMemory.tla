---------------------------- MODULE LinearMemory ----------------------------
(***************************************************************************)
(* One execution of a plugin as WasmPluginInstance::execute sees it        *)
(* (crates/wasm-plugin/src/runtime.rs): a fresh Store, two strings written *)
(* behind what the memory holds, the call, and the string it returns.      *)
(* The integers keep their widths: i32 in the plugin's signature, u64 for  *)
(* wasmtime's addresses and usize for the slice.                           *)
(*                                                                         *)
(* An image is what is in a compiled module:                               *)
(*   exports  process_request with its signature and memory are exported   *)
(*   pages    the initial pages of the memory                              *)
(*   limit    the most pages it declares                                   *)
(*   traps    the call ends in a trap                                      *)
(*   grows    the pages the call adds, if the limit allows                 *)
(*   result   the i32 the call returns                                     *)
(*   parses   what is read at result is the JSON of a PluginResult         *)
(***************************************************************************)
EXTENDS Integers

CONSTANTS PageSize,     \* bytes of a page: 65536
          Wrap32,       \* 2^32
          Wrap64        \* 2^64

ASSUME WidthAssumption ==
    /\ PageSize \in Nat /\ PageSize > 8
    /\ Wrap32 \in Nat /\ Wrap64 \in Nat
    /\ Wrap32 > 2 * PageSize /\ Wrap32 % (2 * PageSize) = 0
    /\ Wrap64 > 2 * Wrap32 /\ Wrap64 % Wrap32 = 0

MaxPages == Wrap32 \div PageSize        \* what 32 bits can address

Images == [exports : BOOLEAN, pages : 0..MaxPages, limit : 0..MaxPages,
           traps : BOOLEAN, grows : 0..MaxPages,
           result : (-(Wrap32 \div 2))..(Wrap32 \div 2 - 1),
           parses : BOOLEAN]

-----------------------------------------------------------------------------
(* The casts "as i32" and "as u64" (or "as usize").                         *)
AsI32(n) == LET low == n % Wrap32 IN IF 2 * low < Wrap32 THEN low ELSE low - Wrap32
AsU64(i) == i % Wrap64

(* The pages that hold length bytes from the offset on; the sum wraps in a  *)
(* release build.                                                           *)
NeededPages(offset, length) == ((AsU64(offset) + length) % Wrap64) \div PageSize + 1

WriteInPlace(memory, length) ==     \* mutant: forgets that the offset needs room as well
    LET offset == AsI32(memory.pages * PageSize - 8)
        needed == NeededPages(offset, length)
        pages  == IF needed > memory.pages THEN needed ELSE memory.pages
    IN  [ok     |-> pages <= memory.limit /\ AsU64(offset) + length <= pages * PageSize,
         offset |-> offset,
         memory |-> [memory EXCEPT !.pages = pages]]

(* write_string.  max_memory_pages of the engine's limits is not consulted: *)
(* only the limit that the module declares makes grow fail.                 *)
WriteString(memory, length) ==
    LET offset == AsI32(memory.pages * PageSize + 8)
        needed == NeededPages(offset, length)
        pages  == IF needed > memory.pages THEN needed ELSE memory.pages
    IN  [ok     |-> pages <= memory.limit /\ AsU64(offset) + length <= pages * PageSize,
         offset |-> offset,
         memory |-> [memory EXCEPT !.pages = pages]]

(* The request and then the configuration; the second write sees the memory *)
(* that the first has grown.                                                *)
Request(image, length) == WriteString([pages |-> image.pages, limit |-> image.limit], length)

Config(image, length, configLength) == WriteString(Request(image, length).memory, configLength)

(* process_request is reached: both strings could be written.               *)
Called(image, length, configLength) ==
    /\ image.exports
    /\ Request(image, length).ok
    /\ Config(image, length, configLength).ok

(* The four i32 it is called with.  A length of 2^31 or more is negative.   *)
Arguments(image, length, configLength) ==
    [request |-> Request(image, length).offset,
     requestLength |-> AsI32(length),
     config |-> Config(image, length, configLength).offset,
     configLength |-> AsI32(configLength)]

(* The call itself, which may grow the memory.                              *)
PagesAfter(image, pages) == IF pages + image.grows > image.limit THEN pages ELSE pages + image.grows

(* read_string slices from the result to the next NUL or the end of memory: *)
(* a start behind the end panics.                                           *)
ReadPanics(result, pages) == AsU64(result) > pages * PageSize

Outcome(image, length, configLength) ==
    LET pages == PagesAfter(image, Config(image, length, configLength).memory.pages)
    IN  IF ~Called(image, length, configLength) \/ image.traps THEN "error"
        ELSE IF ReadPanics(image.result, pages) THEN "panic"
        ELSE IF image.parses THEN "result" ELSE "error"

-----------------------------------------------------------------------------
(* Where process_request finds the strings: behind the module's own data,   *)
(* apart, inside the memory, at the non-negative addresses it was told.     *)
Placed(image, length, configLength) ==
    LET told  == Arguments(image, length, configLength)
        pages == Config(image, length, configLength).memory.pages
    IN  /\ told.request >= image.pages * PageSize
        /\ told.config >= told.request + length
        /\ told.config + configLength <= pages * PageSize
        /\ pages <= image.limit
=============================================================================
