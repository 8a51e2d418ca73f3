----------------------------- MODULE StagingReadback ---------------------------
(***************************************************************************)
(* Where the pages that the GPU has written to an incoherent RDRAM are     *)
(* staged on a discrete GPU: every run of pages takes room for its values  *)
(* and then for their write masks in a ring of pages, which is large       *)
(* enough that nobody looks whether the worker has copied what was there.  *)
(***************************************************************************)
EXTENDS Naturals, SequencesExt

CONSTANTS
    RingPages,          \* staging_readback_pages, a power of two
    WordPages           \* pages per word of page_to_pending_readback, 32

(* for_each_bit_range over every word: maximal runs of dirty pages.        *)
Runs(pages) ==
    LET Joined(a, b) == a \div WordPages = b \div WordPages
        Starts == {p \in pages : p = 0 \/ p - 1 \notin pages \/ ~Joined(p - 1, p)}
        Count(p) == CHOOSE n \in 1 .. WordPages :
                        /\ \A i \in 0 .. n - 1 : p + i \in pages /\ Joined(p, p + i)
                        /\ p + n \notin pages \/ ~Joined(p, p + n)
    IN  [i \in 1 .. Cardinality(Starts) |->
            LET p == SetToSortSeq(Starts, <)[i] IN [index |-> p, count |-> Count(p)]]

PlaceNoWrap(index, count) == [at |-> index, next |-> (index + count) % RingPages]

(* Room for count pages: where, and staging_readback_index afterwards.     *)
Place(index, count) ==
    LET next == (index + count) % RingPages
    IN  IF next # 0 /\ next < index THEN [at |-> 0, next |-> count] ELSE [at |-> index, next |-> next]

(* resolve_coherency_gpu_to_host: CoherencyOperation::copies, in pages, and *)
(* the staging index that is left.                                         *)
GpuToHost(index, pages) ==
    LET Stage(done, run) ==
            LET values == Place(done.index, run.count)
                masks  == Place(values.next, run.count)
            IN  [index  |-> masks.next,
                 copies |-> Append(done.copies, [src_offset |-> values.at, mask_offset |-> masks.at,
                                                 dst_offset |-> run.index, counters |-> run.count])]
    IN  FoldLeft(Stage, [index |-> index, copies |-> <<>>], Runs(pages))
=============================================================================
