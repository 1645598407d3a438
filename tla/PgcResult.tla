----------------------------- MODULE PgcResult -----------------------------
(***************************************************************************)
(* The rows of a result: how pgc::impl::Result (src/pgc/impl/result.cpp)   *)
(* fills a Variant with a row, several rows or a column.  A caller uses    *)
(* one Variant again and again (rows in a loop, as scom does), so what it  *)
(* held before is still there: the containers are resized, not emptied,    *)
(* and a column of a type that fetch does not know ends a call in the      *)
(* middle.  Rows and columns are counted from 1.                           *)
(***************************************************************************)
EXTENDS PgcValues, FiniteSets

CONSTANTS Results,    \* tables: rows of columns as the server sends them
          ColNames,   \* names of the columns, which may repeat
          ColLists,   \* lists of columns to ask for
          RowRanges   \* first row, and the one after the last, perhaps too far

VARIABLES table, dst, call
resultVars == <<table, dst, call>>

Seqs == {"DequeVariant", "ListVariant", "VectorVariant"}
NoKids(t) == [t |-> t, kids |-> <<>>]
VoidCell == PgNull("Void")

(* fetch succeeds: the value is null, or of a type it knows. *)
Fetchable(c) == c.null \/ colType(c.oid) # "Void"

Least(s) == CHOOSE x \in s : \A y \in s : x <= y
Greatest(s) == CHOOSE x \in s : \A y \in s : x >= y

(* The first element at which a loop over good ends, beyond it if none. *)
FirstBad(good) == Least({i \in DOMAIN good : ~good[i]} \cup {Len(good) + 1})

(* v.resize(n) *)
NeverShorter(kids, n) ==
    [i \in 1 .. (IF n > Len(kids) THEN n ELSE Len(kids)) |-> IF i <= Len(kids) THEN kids[i] ELSE VoidCell]
Resized(kids, n) == [i \in 1 .. n |-> IF i <= Len(kids) THEN kids[i] ELSE VoidCell]

(* A loop that puts new[i] into element i until it fails. *)
Overwritten(kids, new, good) ==
    LET old == Resized(kids, Len(new))
    IN  [i \in DOMAIN old |-> IF i < FirstBad(good) /\ i <= Len(new) THEN new[i] ELSE old[i]]
AllGood(good) == \A i \in DOMAIN good : good[i]

(* as<T>(true): what is there, if it has the type. *)
KidsAs(v, t) == IF v.t = t THEN v.kids ELSE <<>>

-----------------------------------------------------------------------------
(* Functions that fill a container; each gives [ok, v]. *)

fetchRowList_(t, kids, cs, r) ==
    LET good == [i \in DOMAIN cs |-> Fetchable(table[r][cs[i]])]
        new == [i \in DOMAIN cs |-> IF good[i] THEN fetch(table[r][cs[i]]) ELSE VoidCell]
    IN  [ok |-> AllGood(good), v |-> [t |-> t, kids |-> Overwritten(kids, new, good)]]

(* v[colName] is there before its fetch fails; the last of columns of one  *)
(* name stays.                                                             *)
fetchRowMap_(cs, r) ==
    LET bad == FirstBad([i \in DOMAIN cs |-> Fetchable(table[r][cs[i]])])
        named(x) == {i \in DOMAIN cs : i < bad /\ ColNames[cs[i]] = x}
    IN  [ok |-> bad > Len(cs),
         v |-> [t |-> "MapStringVariant",
                entries |-> [x \in {ColNames[cs[i]] : i \in DOMAIN cs \cap (1 .. bad)} |->
                             IF named(x) = {} THEN VoidCell ELSE fetch(table[r][cs[Greatest(named(x))]])]]]

(* The rows of a range that there are. *)
RangeRows(range) ==
    LET end == IF range[2] > Len(table) + 1 THEN Len(table) + 1 ELSE range[2]
    IN  [i \in 1 .. (IF range[1] >= end THEN 0 ELSE end - range[1]) |-> range[1] + i - 1]

fetchRowsList_(t, kids, cs, range) ==
    LET rs == RangeRows(range)
        one == [i \in DOMAIN rs |->
                  fetchRowList_(t, IF i <= Len(kids) THEN KidsAs(kids[i], t) ELSE <<>>, cs, rs[i])]
        good == [i \in DOMAIN rs |-> one[i].ok]
        bad == FirstBad(good)
        filled == Overwritten(kids, [i \in DOMAIN rs |-> one[i].v], good)
    IN  [ok |-> AllGood(good),
         v |-> [t |-> t, kids |-> IF AllGood(good) THEN filled ELSE [filled EXCEPT ![bad] = one[bad].v]]]

fetchRowsMap_(t, kids, cs, range) ==
    LET rs == RangeRows(range)
        one == [i \in DOMAIN rs |-> fetchRowMap_(cs, rs[i])]
        good == [i \in DOMAIN rs |-> one[i].ok]
        bad == FirstBad(good)
        filled == Overwritten(kids, [i \in DOMAIN rs |-> one[i].v], good)
    IN  [ok |-> AllGood(good),
         v |-> [t |-> t, kids |-> IF AllGood(good) THEN filled ELSE [filled EXCEPT ![bad] = one[bad].v]]]

fetchColumn_(t, kids, c, range) ==
    LET rs == RangeRows(range)
        good == [i \in DOMAIN rs |-> Fetchable(table[rs[i]][c])]
        new == [i \in DOMAIN rs |-> IF good[i] THEN fetch(table[rs[i]][c]) ELSE VoidCell]
    IN  [ok |-> AllGood(good), v |-> [t |-> t, kids |-> Overwritten(kids, new, good)]]

-----------------------------------------------------------------------------
(* The calls.  A Variant that holds a sequence keeps its type; any other   *)
(* becomes a deque.                                                        *)

DstType == IF dst.t \in Seqs THEN dst.t ELSE "DequeVariant"
DstKids == KidsAs(dst, DstType)

Returns(op, cs, range, res) ==
    /\ dst' = res.v
    /\ call' = [op |-> op, cs |-> cs, range |-> range, ok |-> res.ok]
    /\ UNCHANGED <<table, valueVars>>

fetchRowList ==
    \E cs \in ColLists, r \in DOMAIN table :
       Returns("rowList", cs, <<r, r + 1>>, fetchRowList_(DstType, DstKids, cs, r))
fetchRowMap ==
    \E cs \in ColLists, r \in DOMAIN table : Returns("rowMap", cs, <<r, r + 1>>, fetchRowMap_(cs, r))
fetchRowsList ==
    \E cs \in ColLists, range \in RowRanges :
       Returns("rowsList", cs, range, fetchRowsList_(DstType, DstKids, cs, range))
fetchRowsMap ==
    \E cs \in ColLists, range \in RowRanges :
       Returns("rowsMap", cs, range, fetchRowsMap_(DstType, DstKids, cs, range))
fetchColumn ==
    \E c \in DOMAIN ColNames, range \in RowRanges :
       Returns("column", <<c>>, range, fetchColumn_(DstType, DstKids, c, range))

(* Rows and columns are asked for by their numbers. *)
ASSUME ResultAssumption ==
    /\ \A rows \in Results : rows \in Seq(Seq([oid : Nat, null : BOOLEAN, n : Seq(Int)]))
    /\ \A cs \in ColLists : cs \in Seq(DOMAIN ColNames)
    /\ \A range \in RowRanges : range[1] \in Nat \ {0} /\ range[2] \in Nat

NoCall == [op |-> "none", cs |-> <<>>, range |-> <<1, 1>>, ok |-> FALSE]

ResultStart(rows) ==
    /\ table = rows
    /\ dst \in {NoKids("VectorVariant"), VoidCell}
    /\ call = NoCall

ResultInit == \E rows \in Results : ResultStart(rows)
ResultNext == fetchRowList \/ fetchRowMap \/ fetchRowsList \/ fetchRowsMap \/ fetchColumn

ResultSpec ==
    /\ ValuesInit /\ ResultInit
    /\ [][(ValuesNext /\ UNCHANGED resultVars) \/ ResultNext]_<<valueVars, resultVars>>

-----------------------------------------------------------------------------
(* Properties. *)

RowAsked(r) == [i \in DOMAIN call.cs |-> fetch(table[r][call.cs[i]])]
MapAsked(r, entries) ==
    \A i \in DOMAIN call.cs :
       LET x == ColNames[call.cs[i]]
       IN  (\A j \in DOMAIN call.cs : j > i => ColNames[call.cs[j]] # x) =>
             x \in DOMAIN entries /\ entries[x] = fetch(table[r][call.cs[i]])

(* A call says whether it could read everything it was asked for; if so,   *)
(* the Variant holds exactly the rows and columns asked for that exist,    *)
(* in their order, and nothing of what it held before.                     *)
FetchedExact ==
    call.op # "none" =>
      LET asked == {r \in DOMAIN table : call.range[1] <= r /\ r < call.range[2]}
          rowAt(k) == call.range[1] + k - 1
      IN  /\ call.ok <=> \A r \in asked, i \in DOMAIN call.cs : Fetchable(table[r][call.cs[i]])
          /\ call.ok =>
               CASE call.op = "rowList" -> dst.kids = RowAsked(rowAt(1))
                 [] call.op = "rowMap" ->
                      /\ DOMAIN dst.entries = {ColNames[call.cs[i]] : i \in DOMAIN call.cs}
                      /\ MapAsked(rowAt(1), dst.entries)
                 [] OTHER ->
                      /\ Len(dst.kids) = Cardinality(asked)
                      /\ \A k \in DOMAIN dst.kids :
                           CASE call.op = "column" -> dst.kids[k] = RowAsked(rowAt(k))[1]
                             [] call.op = "rowsList" ->
                                  dst.kids[k].t = dst.t /\ dst.kids[k].kids = RowAsked(rowAt(k))
                             [] OTHER -> MapAsked(rowAt(k), dst.kids[k].entries)

(* What goes to the server comes back unchanged and in its place. *)
ResultsExact == ReadsBack /\ FetchedExact
=============================================================================
