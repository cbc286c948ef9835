------------------------------ MODULE BadRecords ------------------------------
(***************************************************************************)
(* tools/bad_records_summarizer.py: bad records are read one by one into   *)
(* counts and samples per violation type (table, field, reason), and the   *)
(* summary shows the types that come first.  Summary is defined for every  *)
(* prefix of the input, which is an input too.                             *)
(*                                                                         *)
(* Texts are numbers in their alphabetical order.  How a text is cut to    *)
(* its maximal length is left out: rows are told apart by the whole text.  *)
(***************************************************************************)
EXTENDS Integers, Sequences, FiniteSets

CONSTANTS BadRecordSet,       \* records that may be read: SUBSET BadRecord
          MaxTypeCount,
          MaxSamplesPerType,
          MaxRecords,         \* bound on the records read
          Unknown, Blank,     \* the text "unknown", and a text of spaces
          Absent              \* a value that is missing

(***************************************************************************)
(* raw_reason is a mapping, or a text that parses into one (parsed), or a  *)
(* text that does not, or neither; "text" is the text, if it is not empty. *)
(* "field" is Absent if it is not a string.                                *)
(***************************************************************************)
BadRecord ==
    [source_table : Nat, record_json : Nat,
     raw_reason : [parsed : BOOLEAN, text : Nat \cup {Absent}, field : Nat \cup {Absent},
                   detail : Nat \cup {Absent}, rule : Nat \cup {Absent}, reason : Nat \cup {Absent}]]

ASSUME SummaryAssumption ==
    /\ BadRecordSet \subseteq BadRecord
    /\ MaxTypeCount \in Nat /\ MaxSamplesPerType \in Nat /\ MaxRecords \in Nat
    /\ Unknown \in Nat /\ Blank \in Nat /\ Absent \notin Nat

VARIABLES bad_records,      \* history: the records read so far
          grouped_counts,   \* [types read -> Nat]
          grouped_samples   \* [types read -> Seq(record_json)]

summary_vars == <<bad_records, grouped_counts, grouped_samples>>

-----------------------------------------------------------------------------
(* The violation type of a record. *)

Field(raw) == IF raw.parsed /\ raw.field \notin {Absent, Blank} THEN raw.field ELSE Unknown

\* The first of detail, rule and reason that says something; else the whole text.
Reason(raw) ==
    LET texts == <<raw.detail, raw.rule, raw.reason>>
        said == {n \in 1 .. 3 : texts[n] \notin {Absent, Blank}}
    IN IF raw.parsed /\ said # {} THEN texts[CHOOSE n \in said : \A m \in said : n <= m]
       ELSE IF raw.text # Absent THEN raw.text ELSE Unknown

ViolationKey(r) == <<r.source_table, Field(r.raw_reason), Reason(r.raw_reason)>>

-----------------------------------------------------------------------------
SummaryInit == /\ bad_records = <<>>
               /\ grouped_counts = [k \in {} |-> 0]
               /\ grouped_samples = [k \in {} |-> <<>>]

\* Variant: the cap on the samples also stops the count.
ReadUpToCap(r) ==
    LET key == ViolationKey(r)
        known == DOMAIN grouped_counts
    IN /\ bad_records' = Append(bad_records, r)
       /\ grouped_counts' = [k \in known \cup {key} |->
              IF k \notin known THEN 1
              ELSE IF k = key /\ grouped_counts[k] < MaxSamplesPerType
                   THEN grouped_counts[k] + 1 ELSE grouped_counts[k]]
       /\ grouped_samples' = [k \in known \cup {key} |->
              LET samples == IF k \in known THEN grouped_samples[k] ELSE <<>>
              IN IF k = key /\ Len(samples) < MaxSamplesPerType
                 THEN Append(samples, r.record_json) ELSE samples]

Read(r) ==
    LET key == ViolationKey(r)
        known == DOMAIN grouped_counts
    IN /\ bad_records' = Append(bad_records, r)
       /\ grouped_counts' = [k \in known \cup {key} |->
              (IF k \in known THEN grouped_counts[k] ELSE 0) + IF k = key THEN 1 ELSE 0]
       /\ grouped_samples' = [k \in known \cup {key} |->
              LET samples == IF k \in known THEN grouped_samples[k] ELSE <<>>
              IN IF k = key /\ Len(samples) < MaxSamplesPerType
                 THEN Append(samples, r.record_json) ELSE samples]

SummaryNext == /\ Len(bad_records) < MaxRecords
               /\ \E r \in BadRecordSet : Read(r)

SummarySpec == SummaryInit /\ [][SummaryNext]_summary_vars

-----------------------------------------------------------------------------
(* The summary. *)

Types == DOMAIN grouped_counts

Alphabetical(k, j) == \E n \in 1 .. 3 : k[n] < j[n] /\ \A m \in 1 .. n - 1 : k[m] = j[m]

\* Variant: rare types come first.
RareFirst(k, j) ==
    \/ grouped_counts[k] < grouped_counts[j]
    \/ grouped_counts[k] = grouped_counts[j] /\ Alphabetical(k, j)

\* The sort key (-count, table, field, reason).
Before(k, j) ==
    \/ grouped_counts[k] > grouped_counts[j]
    \/ grouped_counts[k] = grouped_counts[j] /\ Alphabetical(k, j)

Rank(k) == Cardinality({j \in Types : Before(j, k)}) + 1
SelectedKeys == {k \in Types : Rank(k) <= MaxTypeCount}

Row(k) == [violation |-> k,
           count |-> grouped_counts[k],
           samples_truncated |-> grouped_counts[k] > Len(grouped_samples[k]),
           samples |-> grouped_samples[k]]

Summary ==
    [total_records   |-> Len(bad_records),
     type_count      |-> Cardinality(SelectedKeys),
     types_truncated |-> Cardinality(Types) > MaxTypeCount,
     types           |-> [n \in 1 .. Cardinality(SelectedKeys) |->
                            Row(CHOOSE k \in SelectedKeys : Rank(k) = n)]]

-----------------------------------------------------------------------------
(* What the summary must say of the records, whatever was read before what. *)

OfType(k) == {n \in DOMAIN bad_records : ViolationKey(bad_records[n]) = k}
AllTypes == {ViolationKey(bad_records[n]) : n \in DOMAIN bad_records}
Shown == {Summary.types[n].violation : n \in DOMAIN Summary.types}

(***************************************************************************)
(* Every row tells how many records its type really has and shows the      *)
(* first of them; a record is missing from the rows only if the flags say  *)
(* that types, or samples, were left out.                                  *)
(***************************************************************************)
NothingLeftOutSilently ==
    /\ Summary.types_truncated <=> Shown # AllTypes
    /\ \A n \in DOMAIN Summary.types :
         LET row == Summary.types[n]
             records == OfType(row.violation)
             Nth(r) == Cardinality({i \in records : i <= r})
         IN /\ row.count = Cardinality(records)
            /\ \A r \in records : Nth(r) <= Len(row.samples) =>
                   row.samples[Nth(r)] = bad_records[r].record_json
            /\ ~row.samples_truncated => Len(row.samples) = Cardinality(records)

\* Type k has more records than type j, or as many and the lesser text.
Sooner(k, j) ==
    \/ Cardinality(OfType(k)) > Cardinality(OfType(j))
    \/ Cardinality(OfType(k)) = Cardinality(OfType(j)) /\ Alphabetical(k, j)

(***************************************************************************)
(* The cap drops no type that has more records than one it keeps, the rows *)
(* are in that order too, and among types with as many it is fixed: the    *)
(* same records, read in another order, give the same types in the same    *)
(* rows.                                                                   *)
(***************************************************************************)
MostFrequentTypesShown ==
    /\ Cardinality(Shown) <= MaxTypeCount
    /\ \A k \in Shown, j \in AllTypes \ Shown : Sooner(k, j)
    /\ \A m, n \in DOMAIN Summary.types :
         m < n => Sooner(Summary.types[m].violation, Summary.types[n].violation)

(***************************************************************************)
(* type_count is the number of types before the cap                        *)
(* (.specs/ai_agent_spec.md:441).                                          *)
(***************************************************************************)
TypeCountBeforeCap == Summary.type_count = Cardinality(AllTypes)
=============================================================================
