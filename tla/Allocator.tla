----------------------------- MODULE Allocator -----------------------------
(***************************************************************************)
(* The global allocator (src/allocator.rs): a first-fit free list sorted   *)
(* by address whose segments carry a header, allocations being cut from    *)
(* the end of a free segment.  alloc and dealloc run under an interrupt    *)
(* guard and a spin lock (module InterruptGuard), so each is one step.     *)
(*                                                                         *)
(* Addresses are machine words: pointer arithmetic is modulo W, and an     *)
(* offset with the top bit set is negative.                                *)
(***************************************************************************)
EXTENDS Naturals, Sequences, FiniteSets, SequencesExt

CONSTANTS
  W,        \* number of addresses
  H,        \* size_of::<FreeSegment>() = size_of::<UsedSegment>()
  Base,     \* KERNEL_END
  Size,     \* size of the first segment
  Layouts,  \* the layouts requested: records [size, align]
  MaxUsed   \* bound on the number of live allocations

ASSUME AllocatorAssumption ==
  /\ {W, H, Base, Size, MaxUsed} \subseteq Nat \ {0}
  /\ Base + H + Size <= W
  /\ \A l \in Layouts : {l.size, l.align} \subseteq Nat \ {0} /\ 2 * l.size < W

VARIABLES
  free,   \* the free list from first_free: [addr |-> header address, size]
  used,   \* the allocated segments, with the layout each was requested with
  panic   \* "no", or the panic that stopped the kernel

vars == <<free, used, panic>>

sub(a, b) == (a + W - b) % W

get_start(s) == s.addr + H
get_end(s) == get_start(s) + s.size

(* offset_from and try_into: an end below the start panics. *)
valid_end(start, end) == 2 * sub(end, start) < W

Init ==
  /\ free = <<[addr |-> Base, size |-> Size]>>
  /\ used = {}
  /\ panic = "no"

-----------------------------------------------------------------------------
(* The header of an allocation at the highest suitable address. *)
header(s, l) ==
  LET ptr == sub(get_end(s), l.size)
  IN  sub(ptr - (ptr % l.align), H)

Bug_fits(s, l) == header(s, l) >= s.addr

(* find_header_for_allocation returned Some. *)
fits(s, l) == header(s, l) >= get_start(s)

Bug_used_end(s, l) == header(s, l) + H + l.size

used_end(s, l) == get_end(s)

alloc(l) ==
  /\ panic = "no"
  /\ Cardinality(used) < MaxUsed
  /\ IF ~ \E i \in DOMAIN free : fits(free[i], l)
       THEN panic' = "Failed to allocate" /\ UNCHANGED <<free, used>>
       ELSE LET i == CHOOSE j \in DOMAIN free :
                       /\ fits(free[j], l)
                       /\ \A k \in 1 .. j - 1 : ~fits(free[k], l)
                s == free[i]
                h == header(s, l)
            IN  IF valid_end(get_start(s), h)
                  THEN /\ free' = [free EXCEPT ![i].size = h - get_start(s)]
                       /\ used' = used \cup {[addr |-> h, layout |-> l,
                                              size |-> used_end(s, l) - (h + H)]}
                       /\ UNCHANGED panic
                  ELSE panic' = "Expected end > start" /\ UNCHANGED <<free, used>>

-----------------------------------------------------------------------------
adjacent(a, b) == get_end(a) = b.addr

(* merge_if_adjacent on the i-th segment of a list and the next one. *)
merge_if_adjacent(list, i) ==
  IF i < Len(list) /\ adjacent(list[i], list[i + 1])
    THEN RemoveAt([list EXCEPT ![i].size = get_end(list[i + 1]) - get_start(list[i])],
                  i + 1)
    ELSE list

insert_segment_after(list, i, new) ==
  merge_if_adjacent(merge_if_adjacent(InsertAt(list, i + 1, new), i + 1), i)

should_insert(list, i, new) == i = Len(list) \/ list[i + 1].addr > new.addr

convert_used_to_free_segment(u) == [addr |-> u.addr, size |-> u.size]

(* insert_segment_into_list: the segment behind which its loop inserts. *)
insert_position(list, new) ==
  CHOOSE j \in DOMAIN list :
    /\ should_insert(list, j, new)
    /\ \A k \in 1 .. j - 1 : ~should_insert(list, k, new)

(* The loop asserts that it stays below new. *)
dealloc(u) ==
  LET new == convert_used_to_free_segment(u)
      i == insert_position(free, new)
  IN  /\ panic = "no"
      /\ IF \E k \in 1 .. i : free[k].addr >= new.addr
           THEN panic' = "it < new_segment" /\ UNCHANGED <<free, used>>
           ELSE /\ free' = insert_segment_after(free, i, new)
                /\ used' = used \ {u}
                /\ UNCHANGED panic

Next ==
  \/ \E l \in Layouts : alloc(l)
  \/ \E u \in used : dealloc(u)

Spec == Init /\ [][Next]_vars

-----------------------------------------------------------------------------
Heap == Base .. Base + H + Size - 1

Segments == ToSet(free) \cup used

Extent(s) == s.addr .. get_end(s) - 1

(* Free and used segments, headers included, cover the heap exactly: no    *)
(* two overlap, so no allocation is handed out twice or over a header, and *)
(* no byte is lost between them.                                           *)
HeapIsTiled ==
  /\ UNION {Extent(s) : s \in Segments} = Heap
  /\ \A s, t \in Segments : s # t => Extent(s) \cap Extent(t) = {}

(* alloc gives up on a segment only when no aligned address in it has room *)
(* for the header and the layout.                                          *)
NoFitMeansNoRoom ==
  \A l \in Layouts, i \in DOMAIN free :
    fits(free[i], l) <=>
      \E p \in Heap : /\ p % l.align = 0
                      /\ p >= get_start(free[i]) + H
                      /\ p + l.size <= get_end(free[i])

=============================================================================
