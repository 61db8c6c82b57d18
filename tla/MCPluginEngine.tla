--------------------------- MODULE MCPluginEngine ---------------------------
(* One loader, as load_plugins_from_dir works, two callers, and three      *)
(* names: two in the same shard of the map and one in another.  A page has *)
(* 16 bytes, an i32 8 bits and a u64 16: a memory has up to 16 pages, and  *)
(* offsets from the eighth page on are negative.                           *)
EXTENDS PluginEngine

CONSTANTS masker, tracer, limiter, s1, s2, v1, v2

MCNames == {masker, tracer, limiter}
TwoShards == [n \in MCNames |-> IF n = limiter THEN s2 ELSE s1]

Plain == [exports |-> TRUE, pages |-> 1, limit |-> 16, traps |-> FALSE, grows |-> 1,
          result |-> 4, parses |-> TRUE]

(* A module that answers; one whose second string no longer fits; one that  *)
(* returns a negative offset; one of half the address space; one of all of  *)
(* it; one that answers from a page it has added, if it has a config.       *)
MCImage ==
    [nv \in MCNames \X {v1, v2} |->
        CASE nv = <<masker, v1>>  -> Plain
          [] nv = <<masker, v2>>  -> [Plain EXCEPT !.limit = 4]
          [] nv = <<tracer, v1>>  -> [Plain EXCEPT !.result = -1]
          [] nv = <<tracer, v2>>  -> [Plain EXCEPT !.pages = 8]
          [] nv = <<limiter, v1>> -> [Plain EXCEPT !.pages = 16, !.grows = 0]
          [] nv = <<limiter, v2>> -> [Plain EXCEPT !.result = 100, !.grows = 2]]

(* A config that fills half the address space, none, and short ones.        *)
MCConfigLength ==
    [nv \in MCNames \X {v1, v2} |->
        IF nv = <<masker, v1>> THEN 130 ELSE IF nv[2] = v1 THEN 0 ELSE 9]

MCDirectory == {[name |-> n, version |-> v1] : n \in {masker, limiter}}
=============================================================================
