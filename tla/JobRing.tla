------------------------------- MODULE JobRing -------------------------------
(***************************************************************************)
(* The bounded output of one background job: internal/app/job/ring.go.     *)
(*                                                                         *)
(* Bytes are known by their absolute offset.  A ring is the number of      *)
(* bytes ever appended (total), the first offset still retained            *)
(* (earliest), the offsets at which the retained chunks begin (starts) and *)
(* the offsets at which a retained character begins (runes): retained      *)
(* bytes are the interval from earliest to total.                          *)
(***************************************************************************)
EXTENDS Integers, FiniteSetsExt

EmptyRing == [total |-> 0, earliest |-> 0, starts |-> {}, runes |-> {}]

\* Mutant: a chunk cut to its tail may begin inside a character.
TrimBytes(r, limit) ==
    LET from == Max({r.earliest, r.total - limit})
    IN  [r EXCEPT !.earliest = from, !.runes = {x \in @ : x >= from},
                  !.starts = {from} \cup {s \in @ : s >= from}]

\* trim: drop whole head chunks until the rest fits; a single chunk that does
\* not fit keeps the longest tail of whole characters that does.
Trim(r, limit) ==
    LET fits == {s \in r.starts : r.total - s <= limit}
        tail == {x \in r.runes \cup {r.total} : r.total - x <= limit}
        from == IF r.starts = {} THEN r.total
                ELSE Min(IF fits # {} THEN fits ELSE tail)
    IN  [total |-> r.total, earliest |-> from, runes |-> {x \in r.runes : x >= from},
         starts |-> IF r.starts = {} THEN {} ELSE {from} \cup {s \in r.starts : s >= from}]

\* append: one more chunk, whose characters have these widths, then trim.
AppendChunk(r, chunk, limit) ==
    Trim([total |-> r.total + chunk.len, earliest |-> r.earliest,
          starts |-> r.starts \cup {r.total},
          runes |-> r.runes \cup {r.total + x : x \in chunk.runes}], limit)

\* readFrom: the chunks that begin at or after from, which end at total, and
\* whether bytes before them were lost.
ReadFrom(r, from) ==
    [from |-> Min({s \in r.starts : s >= from} \cup {r.total}), to |-> r.total,
     lossy |-> from < r.earliest]
==============================================================================
