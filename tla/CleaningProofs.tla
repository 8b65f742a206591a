--------------------------- MODULE CleaningProofs ---------------------------
(***************************************************************************)
(* What clean_rows does to a file of any length with any records.           *)
(***************************************************************************)
EXTENDS Cleaning, FiniteSetTheorems, TLAPS

IInv == CleaningTypeOK /\ KeepsFirsts /\ CountsAddUp

Counted(s) == {m \in DOMAIN s : ~BlankLine(s[m])}

-----------------------------------------------------------------------------
\* What Append does, in the form the proofs below use it.
LEMMA AppendFacts ==
    ASSUME NEW S, NEW s \in Seq(S), NEW e \in S
    PROVE  /\ Append(s, e) \in Seq(S)
           /\ Len(Append(s, e)) = Len(s) + 1
           /\ DOMAIN Append(s, e) = DOMAIN s \cup {Len(s) + 1}
           /\ DOMAIN s = 1..Len(s) /\ Len(s) \in Nat
           /\ \A i \in DOMAIN s : Append(s, e)[i] = s[i]
           /\ Append(s, e)[Len(s) + 1] = e
OBVIOUS

\* The forms a body may have.
LEMMA BodyForms ==
    ASSUME NEW b \in Body
    PROVE  /\ b.form = "amount" => b \in Amounts
           /\ b.form = "date" => b \in DateTexts
           /\ b.form = "word" => b.letters \in Words
           /\ b # Blank <=> b.form # "blank"
BY DEF Body, Amounts, DateTexts, Word, Blank

\* The numbers of digits in a text of three groups.
LEMMA GroupDigits ==
    ASSUME NEW b \in DateTexts
    PROVE  b.form = "date" /\ \A n \in 1..3 : b.group[n].digits \in Int
<1>1. b.form = "date" /\ b.group \in [1..3 -> Group]
  BY DEF DateTexts
<1>2. \A g \in Group : g \in [digits : 1..4, n : 0..9999]
  BY DEF Group
<1>3. \A g \in Group : g.digits \in 1..4
  BY <1>2
<1> QED
  BY <1>1, <1>3

\* No text has the form of two of the formats: a year has four digits and the
\* other groups at most two, so the place of the year tells them apart.
LEMMA FormatsDiffer ==
    ASSUME NEW b, NEW i \in MatchingFormats(b), NEW k \in MatchingFormats(b),
           \A n \in 1..3 : b.group[n].digits \in Int
    PROVE  i = k
<1>1. DOMAIN DateFormats = 1..3
  BY DEF DateFormats
<1>2. /\ DateFormats[1] = [sep |-> "-", y |-> 3, m |-> 2, d |-> 1]
      /\ DateFormats[2] = [sep |-> "/", y |-> 1, m |-> 2, d |-> 3]
      /\ DateFormats[3] = [sep |-> "-", y |-> 1, m |-> 2, d |-> 3]
  BY DEF DateFormats
<1>3. /\ i \in 1..3 /\ Matches(DateFormats[i], b)
      /\ k \in 1..3 /\ Matches(DateFormats[k], b)
  BY <1>1 DEF MatchingFormats
<1>4. \A n \in 1..3 : Matches(DateFormats[n], b) =>
         /\ n = 2 <=> b.sep = "/"
         /\ n = 1 => b.group[3].digits = 4
         /\ n = 3 => b.group[3].digits <= 2
  BY <1>2 DEF Matches
<1> QED
  BY <1>3, <1>4

\* A format that matches a text is the one it is read by.
LEMMA ReadByFormat ==
    ASSUME NEW b \in DateTexts, NEW i \in MatchingFormats(b)
    PROVE  ParseDate(b) = DateAs(DateFormats[i], b) /\ ParseDate(b) \in Dates
<1>1. b.form = "date" /\ \A n \in 1..3 : b.group[n].digits \in Int
  BY GroupDigits
<1>2. \A k \in MatchingFormats(b) : k = i
  BY <1>1, FormatsDiffer
<1>3. i \in Int
  BY DEF MatchingFormats, DateFormats
<1>4. (CHOOSE m \in MatchingFormats(b) : \A k \in MatchingFormats(b) : m <= k) = i
  <2>1. \E m \in MatchingFormats(b) : \A k \in MatchingFormats(b) : m <= k
    <3>1. \A k \in MatchingFormats(b) : i <= k
      BY <1>2, <1>3
    <3> QED
      BY <3>1
  <2>2. (CHOOSE m \in MatchingFormats(b) : \A k \in MatchingFormats(b) : m <= k)
           \in MatchingFormats(b)
    BY <2>1, Zenon
  <2> QED
    BY <1>2, <2>2, Zenon
<1>5. DateAs(DateFormats[i], b) \in Dates
  BY DEF MatchingFormats, Matches
<1> QED
  BY <1>1, <1>4, <1>5 DEF ParseDate

\* What a column's parser returns is a value of that column, or Null.
LEMMA ReadType ==
    ASSUME NEW c \in Columns, NEW t \in Text
    PROVE  ReadAs(c, t) \in Values(c)
<1> DEFINE b == t.body
<1>1. b \in Body
  BY DEF Text
<1> HIDE DEF b
<1>2. ParseAmount(b) \in Storables \cup {Null}
  BY DEF ParseAmount
<1>3. \A enum : Normalise(b, enum) \in enum \cup {Null}
  BY DEF Normalise
<1>4. ParseDate(b) \in Dates \cup {Null}
  BY <1>1, BodyForms, ReadByFormat DEF ParseDate
<1>5. Uncategorised \in Body \ {Blank}
  BY CleaningAssumption DEF Uncategorised, Word, Blank, Body
<1>6. CASE c = "amount"
  BY <1>2, <1>6 DEF ReadAs, Values, b
<1>7. CASE c = "currency"
  BY <1>3, <1>7 DEF ReadAs, Values, b
<1>8. CASE c = "status"
  BY <1>3, <1>8 DEF ReadAs, Values, b
<1>9. CASE c = "date"
  BY <1>4, <1>9 DEF ReadAs, Values, b
<1>10. CASE c = "category"
  BY <1>1, <1>5, <1>10 DEF ReadAs, Values, b
<1>11. CASE c = "other"
  BY <1>1, <1>11 DEF ReadAs, Values, b
<1> QED
  BY <1>6, <1>7, <1>8, <1>9, <1>10, <1>11 DEF Columns, Required

\* Cleaning a record gives a row.
LEMMA CleanRowType ==
    ASSUME NEW hdr, NEW raw \in Records PROVE CleanRow(hdr, raw) \in Row
<1>1. \A c \in Columns : Cell(hdr, raw, c) \in Text
  BY CleaningAssumption DEF Cell, Text, Body
<1>2. \A c \in Columns : ReadAs(c, Cell(hdr, raw, c)) \in Values(c)
  BY <1>1, ReadType
<1>3. ASSUME NEW c \in Columns PROVE Values(c) \subseteq AnyValue
  <2> USE CleaningAssumption DEF Values, AnyValue
  <2>1. CASE c = "amount"
    BY <2>1 DEF Storables
  <2>2. CASE c = "currency" \/ c = "status"
    BY <2>2
  <2>3. CASE c = "date"
    BY <2>3
  <2>4. CASE c = "category" \/ c = "other"
    BY <2>4
  <2> QED
    BY <2>1, <2>2, <2>3, <2>4 DEF Columns, Required
<1> QED
  BY <1>2, <1>3 DEF CleanRow, Row

\* One more record adds one to the count unless it is blank.
LEMMA CountedAppend ==
    ASSUME NEW raw \in Records, NEW s \in Seq(Records)
    PROVE  /\ IsFiniteSet(Counted(s))
           /\ Cardinality(Counted(Append(s, raw)))
                = Cardinality(Counted(s)) + (IF BlankLine(raw) THEN 0 ELSE 1)
<1>1. IsFiniteSet(Counted(s))
  <2>1. IsFiniteSet(1..Len(s))
    BY FS_Interval
  <2>2. Counted(s) \subseteq 1..Len(s)
    BY DEF Counted
  <2> QED
    BY <2>1, <2>2, FS_Subset
<1>2. CASE BlankLine(raw)
  <2>1. Counted(Append(s, raw)) = Counted(s)
    BY <1>2, AppendFacts DEF Counted
  <2>2. Cardinality(Counted(s)) \in Nat
    BY <1>1, FS_CardinalityType
  <2> QED
    BY <1>1, <1>2, <2>1, <2>2
<1>3. CASE ~BlankLine(raw)
  <2>1. Counted(Append(s, raw)) = Counted(s) \cup {Len(s) + 1}
    BY <1>3, AppendFacts DEF Counted
  <2>2. Len(s) + 1 \notin Counted(s)
    BY DEF Counted
  <2> QED
    BY <1>1, <1>3, <2>1, <2>2, FS_AddElement
<1> QED
  BY <1>2, <1>3

-----------------------------------------------------------------------------
LEMMA InitIInv == Init => IInv
<1> SUFFICES ASSUME Init PROVE IInv
  OBVIOUS
<1>1. CleaningTypeOK
  BY DEF Init, CleaningTypeOK
<1>2. KeepsFirsts
  BY DEF Init, KeepsFirsts, IsInjective
<1>3. CountsAddUp
  <2>1. {m \in DOMAIN input : ~BlankLine(input[m])} = {}
    BY DEF Init
  <2> QED
    BY <2>1, FS_EmptySet DEF Init, CountsAddUp
<1> QED
  BY <1>1, <1>2, <1>3 DEF IInv

\* A record that adds no row leaves KeepsFirsts true if it yields none or one
\* that is there.
LEMMA SameRows ==
    ASSUME IInv, NEW raw \in Records, input' = Append(input, raw), rows' = rows, header' = header,
           ~BlankLine(raw) /\ Storable(header, raw) => CleanRow(header, raw) \in Range(rows)
    PROVE  KeepsFirsts'
<1>1. input \in Seq(Records) /\ rows \in Seq(Row)
  BY DEF IInv, CleaningTypeOK
<1>2. /\ DOMAIN input' = DOMAIN input \cup {Len(input) + 1}
      /\ DOMAIN input = 1..Len(input) /\ Len(input) \in Nat
      /\ \A m \in DOMAIN input : input'[m] = input[m]
      /\ input'[Len(input) + 1] = raw
  BY <1>1, AppendFacts
<1>3. KeepsFirsts
  BY DEF IInv
<1>4. IsInjective(rows')
  BY <1>3 DEF KeepsFirsts
<1>5. \A m \in DOMAIN input' :
         ~BlankLine(input'[m]) /\ Storable(header, input'[m])
         => CleanRow(header, input'[m]) \in Range(rows')
  BY <1>2, <1>3 DEF KeepsFirsts
<1>6. ASSUME NEW j \in DOMAIN rows
      PROVE  \E m \in DOMAIN input' :
                /\ Yields(header, input'[m], rows[j])
                /\ \A i \in 1..(j - 1) : \E n \in 1..(m - 1) : Yields(header, input'[n], rows[i])
                /\ \A n \in 1..(m - 1) : ~Yields(header, input'[n], rows[j])
  <2>1. PICK m \in DOMAIN input :
           /\ Yields(header, input[m], rows[j])
           /\ \A i \in 1..(j - 1) : \E n \in 1..(m - 1) : Yields(header, input[n], rows[i])
           /\ \A n \in 1..(m - 1) : ~Yields(header, input[n], rows[j])
    BY <1>3 DEF KeepsFirsts
  <2>2. m \in DOMAIN input' /\ \A n \in 1..m : input'[n] = input[n]
    BY <1>2
  <2>3. m \in 1..m /\ \A n \in 1..(m - 1) : n \in 1..m
    BY <1>2
  <2> QED
    BY <2>1, <2>2, <2>3
<1>7. \A j \in DOMAIN rows' : \E m \in DOMAIN input' :
         /\ Yields(header, input'[m], rows'[j])
         /\ \A i \in 1..(j - 1) : \E n \in 1..(m - 1) : Yields(header, input'[n], rows'[i])
         /\ \A n \in 1..(m - 1) : ~Yields(header, input'[n], rows'[j])
  <2>1. rows' = rows
    OBVIOUS
  <2> QED
    BY ONLY <1>6, <2>1
<1> QED
  BY <1>4, <1>5, <1>7 DEF KeepsFirsts

\* A new row is the first of its kind.
LEMMA NewRow ==
    ASSUME IInv, NEW raw \in Records, input' = Append(input, raw), header' = header,
           ~BlankLine(raw), Storable(header, raw), CleanRow(header, raw) \notin Range(rows),
           rows' = Append(rows, CleanRow(header, raw))
    PROVE  KeepsFirsts'
<1> DEFINE row == CleanRow(header, raw)
           last == Len(rows) + 1
<1>1. input \in Seq(Records) /\ rows \in Seq(Row) /\ row \in Row
  BY CleanRowType DEF IInv, CleaningTypeOK
<1> HIDE DEF row
<1>2. /\ DOMAIN input' = DOMAIN input \cup {Len(input) + 1}
      /\ DOMAIN input = 1..Len(input) /\ Len(input) \in Nat
      /\ \A m \in DOMAIN input : input'[m] = input[m]
      /\ input'[Len(input) + 1] = raw
  BY <1>1, AppendFacts
<1>3. /\ DOMAIN rows' = DOMAIN rows \cup {last}
      /\ DOMAIN rows = 1..Len(rows) /\ Len(rows) \in Nat
      /\ \A j \in DOMAIN rows : rows'[j] = rows[j]
      /\ rows'[last] = row
  BY <1>1, AppendFacts DEF row
<1>4. KeepsFirsts /\ row \notin Range(rows)
  BY DEF IInv, row
<1>5. \A j \in DOMAIN rows : rows[j] # row
  BY <1>4 DEF Range
<1>6. IsInjective(rows')
  BY <1>3, <1>4, <1>5 DEF KeepsFirsts, IsInjective
<1>7. \A m \in DOMAIN input' :
         ~BlankLine(input'[m]) /\ Storable(header, input'[m])
         => CleanRow(header, input'[m]) \in Range(rows')
  <2>1. Range(rows) \subseteq Range(rows') /\ row \in Range(rows')
    BY <1>3 DEF Range
  <2> QED
    BY <1>2, <1>4, <2>1 DEF KeepsFirsts, row
<1>8. ASSUME NEW j \in DOMAIN rows
      PROVE  \E m \in DOMAIN input' :
                /\ Yields(header, input'[m], rows'[j])
                /\ \A i \in 1..(j - 1) : \E n \in 1..(m - 1) : Yields(header, input'[n], rows'[i])
                /\ \A n \in 1..(m - 1) : ~Yields(header, input'[n], rows'[j])
  <2>1. PICK m \in DOMAIN input :
           /\ Yields(header, input[m], rows[j])
           /\ \A i \in 1..(j - 1) : \E n \in 1..(m - 1) : Yields(header, input[n], rows[i])
           /\ \A n \in 1..(m - 1) : ~Yields(header, input[n], rows[j])
    BY <1>4 DEF KeepsFirsts
  <2>2. m \in DOMAIN input' /\ \A n \in 1..m : input'[n] = input[n]
    BY <1>2
  <2>3. m \in 1..m /\ \A n \in 1..(m - 1) : n \in 1..m
    BY <1>2
  <2>4. rows'[j] = rows[j] /\ \A i \in 1..(j - 1) : rows'[i] = rows[i]
    BY <1>3
  <2> QED
    BY <2>1, <2>2, <2>3, <2>4
<1>9. \E m \in DOMAIN input' :
         /\ Yields(header, input'[m], rows'[last])
         /\ \A i \in 1..(last - 1) : \E n \in 1..(m - 1) : Yields(header, input'[n], rows'[i])
         /\ \A n \in 1..(m - 1) : ~Yields(header, input'[n], rows'[last])
  <2> DEFINE m == Len(input) + 1
  <2>1. Yields(header, input'[m], rows'[last])
    BY <1>2, <1>3 DEF Yields, row
  <2>2. ASSUME NEW i \in 1..(last - 1)
        PROVE  \E n \in 1..(m - 1) : Yields(header, input'[n], rows'[i])
    <3>1. i \in DOMAIN rows /\ rows'[i] = rows[i]
      BY <1>3
    <3>2. PICK n \in DOMAIN input : Yields(header, input[n], rows[i])
      BY <1>4, <3>1 DEF KeepsFirsts
    <3>3. n \in 1..(m - 1) /\ input'[n] = input[n]
      BY <1>2
    <3> QED
      BY <3>1, <3>2, <3>3
  <2>3. ASSUME NEW n \in 1..(m - 1) PROVE ~Yields(header, input'[n], rows'[last])
    <3>1. n \in DOMAIN input /\ input'[n] = input[n]
      BY <1>2
    <3> QED
      BY <1>3, <1>4, <3>1 DEF KeepsFirsts, Yields
  <2> QED
    BY <1>2, <2>1, <2>2, <2>3
<1> QED
  BY <1>3, <1>6, <1>7, <1>8, <1>9 DEF KeepsFirsts

LEMMA StepIInv == IInv /\ [Next]_cleaningVars => IInv'
<1> SUFFICES ASSUME IInv, [Next]_cleaningVars PROVE IInv'
  OBVIOUS
<1>0. /\ header \subseteq Columns /\ input \in Seq(Records) /\ rows \in Seq(Row)
      /\ raw_count \in Nat /\ phase \in {"reading", "done", "raised"}
      /\ raw_count = Cardinality(Counted(input)) /\ Len(rows) <= raw_count
  BY DEF IInv, CleaningTypeOK, CountsAddUp, Counted
<1>1. CASE UNCHANGED cleaningVars \/ Finish
  <2>1. header' = header /\ input' = input /\ rows' = rows /\ raw_count' = raw_count
        /\ phase' \in {"reading", "done", "raised"}
    BY <1>0, <1>1 DEF cleaningVars, Finish
  <2>2. CleaningTypeOK'
    BY <1>0, <2>1 DEF CleaningTypeOK
  <2>3. KeepsFirsts'
    BY <2>1 DEF IInv, KeepsFirsts, IsInjective, Range
  <2>4. CountsAddUp'
    BY <1>0, <2>1 DEF CountsAddUp, Counted
  <2> QED
    BY <2>2, <2>3, <2>4 DEF IInv
<1>2. ASSUME NEW raw \in Records, SkipBlank(raw) \/ RaiseOnSurplus(raw)
      PROVE  IInv'
  <2>1. /\ header' = header /\ input' = Append(input, raw) /\ rows' = rows
        /\ raw_count' = raw_count /\ phase' \in {"reading", "done", "raised"}
        /\ BlankLine(raw)
    BY <1>0, <1>2 DEF SkipBlank, RaiseOnSurplus, Reads
  <2>2. CleaningTypeOK'
    BY <1>0, <2>1, AppendFacts DEF CleaningTypeOK
  <2>3. KeepsFirsts'
    BY <2>1, SameRows
  <2>4. CountsAddUp'
    <3>1. Cardinality(Counted(input')) = Cardinality(Counted(input)) + 0
      BY <1>0, <2>1, CountedAppend
    <3>2. raw_count' = Cardinality(Counted(input')) /\ Len(rows') <= raw_count'
      BY <1>0, <2>1, <3>1
    <3> QED
      BY <3>2, Zenon DEF CountsAddUp, Counted
  <2> QED
    BY <2>2, <2>3, <2>4 DEF IInv
<1>3. ASSUME NEW raw \in Records, DropInvalid(raw) \/ KeepRow(raw)
      PROVE  IInv'
  <2>1. /\ header' = header /\ input' = Append(input, raw)
        /\ raw_count' = raw_count + 1 /\ phase' = phase
        /\ ~BlankLine(raw)
    BY <1>3 DEF DropInvalid, KeepRow, Reads
  <2>2. \/ rows' = rows /\ (Storable(header, raw) => CleanRow(header, raw) \in Range(rows))
        \/ /\ Storable(header, raw) /\ CleanRow(header, raw) \notin Range(rows)
           /\ rows' = Append(rows, CleanRow(header, raw))
    BY <1>3 DEF DropInvalid, KeepRow, Seen
  <2>3. rows' \in Seq(Row) /\ Len(rows') <= Len(rows) + 1
    BY <1>0, <2>2, CleanRowType, AppendFacts
  <2>4. CleaningTypeOK'
    BY <1>0, <2>1, <2>3, AppendFacts DEF CleaningTypeOK
  <2>5. KeepsFirsts'
    BY <2>1, <2>2, SameRows, NewRow
  <2>6. CountsAddUp'
    <3>1. Cardinality(Counted(input')) = Cardinality(Counted(input)) + 1
      BY <1>0, <2>1, CountedAppend
    <3>2. Len(rows) \in Nat /\ Len(rows') \in Nat
      BY <1>0, <2>3
    <3>3. raw_count' = Cardinality(Counted(input')) /\ Len(rows') <= raw_count'
      BY <1>0, <2>1, <2>3, <3>1, <3>2
    <3> QED
      BY <3>3, Zenon DEF CountsAddUp, Counted
  <2> QED
    BY <2>4, <2>5, <2>6 DEF IInv
<1> QED
  BY <1>1, <1>2, <1>3 DEF Next

LEMMA Invariant == Spec => []IInv
BY InitIInv, StepIInv, PTL DEF Spec

\* Whatever a file holds, the cleaned rows are its storable records, each
\* once, in the order of first appearance.
THEOREM DuplicatesRemoved == Spec => []KeepsFirsts
BY Invariant, PTL DEF IInv

\* ... and row_count_raw is the number of its records that are not blank.
THEOREM RowsCounted == Spec => []CountsAddUp
BY Invariant, PTL DEF IInv

-----------------------------------------------------------------------------
\* Less than half a cent rounds away.
LEMMA RoundsBack ==
    ASSUME NEW v \in Int, NEW m \in (10 * v - 4)..(10 * v + 4)
    PROVE  Cents(m) = v
<1>1. CASE m >= 10 * v
  <2>1. m \div 10 = v /\ m % 10 = m - 10 * v
    BY <1>1
  <2> QED
    BY <1>1, <2>1 DEF Cents
<1>2. CASE m < 10 * v
  <2>1. m \div 10 = v - 1 /\ m % 10 = m - 10 * v + 10
    BY <1>2
  <2> QED
    BY <1>2, <2>1 DEF Cents
<1> QED
  BY <1>1, <1>2

\* A date is read from all its spellings.
LEMMA DateReadsBack ==
    ASSUME NEW v \in Dates, NEW b \in SpellingsOfDate(v)
    PROVE  b.form = "date" /\ ParseDate(b) = v
<1>1. /\ v.y \in 1..9999 /\ v.m \in 1..12 /\ v.d \in 1..31
      /\ v = [y |-> v.y, m |-> v.m, d |-> v.d]
  BY DEF Dates
<1>2. \A n \in 1..31 : \A g \in Short(n) :
         g \in Group /\ g.digits <= 2 /\ g.n = n
  <2> SUFFICES ASSUME NEW n \in 1..31, NEW g \in Short(n)
               PROVE  g \in Group /\ g.digits <= 2 /\ g.n = n
    OBVIOUS
  <2>1. g \in [digits : 1..2, n : {n}] /\ Spells(g.digits, n)
    BY DEF Short
  <2>2. g.digits \in 1..2 /\ g.n = n
    BY <2>1
  <2>3. g \in [digits : 1..4, n : 0..9999]
    BY <2>1
  <2> QED
    BY <2>1, <2>2, <2>3 DEF Group
<1>3. PICK s \in {"-", "/"}, y \in Group, m \in Group, d \in Group :
         /\ y.digits = 4 /\ y.n = v.y
         /\ m.digits <= 2 /\ m.n = v.m
         /\ d.digits <= 2 /\ d.n = v.d
         /\ \/ b = [form |-> "date", sep |-> s, group |-> <<y, m, d>>]
            \/ b = [form |-> "date", sep |-> "-", group |-> <<d, m, y>>]
  <2> DEFINE y == [digits |-> 4, n |-> v.y]
  <2>1. y \in Group
    <3>1. Spells(y.digits, y.n)
      BY DEF Spells
    <3>2. y \in [digits : 1..4, n : 0..9999]
      BY <1>1
    <3> HIDE DEF y
    <3> QED
      BY <3>1, <3>2 DEF Group
  <2>2. y.digits = 4 /\ y.n = v.y
    OBVIOUS
  <2>3. \E s \in {"-", "/"}, m \in Short(v.m), d \in Short(v.d) :
           \/ b = [form |-> "date", sep |-> s, group |-> <<y, m, d>>]
           \/ b = [form |-> "date", sep |-> "-", group |-> <<d, m, y>>]
    BY DEF SpellingsOfDate
  <2> HIDE DEF y
  <2>4. PICK s \in {"-", "/"}, m \in Short(v.m), d \in Short(v.d) :
           \/ b = [form |-> "date", sep |-> s, group |-> <<y, m, d>>]
           \/ b = [form |-> "date", sep |-> "-", group |-> <<d, m, y>>]
    BY <2>3
  <2>5. v.m \in 1..31 /\ v.d \in 1..31
    BY <1>1
  <2>6. /\ m \in Group /\ m.digits <= 2 /\ m.n = v.m
        /\ d \in Group /\ d.digits <= 2 /\ d.n = v.d
    BY <1>2, <2>5, Zenon
  <2> QED
    BY <2>1, <2>2, <2>4, <2>5, <2>6
<1>4. b \in DateTexts
  <2>1. <<y, m, d>> \in [1..3 -> Group] /\ <<d, m, y>> \in [1..3 -> Group]
    OBVIOUS
  <2> QED
    BY <1>3, <2>1 DEF DateTexts
<1>5. /\ DateFormats[1] = [sep |-> "-", y |-> 3, m |-> 2, d |-> 1]
      /\ DateFormats[2] = [sep |-> "/", y |-> 1, m |-> 2, d |-> 3]
      /\ DateFormats[3] = [sep |-> "-", y |-> 1, m |-> 2, d |-> 3]
      /\ DOMAIN DateFormats = 1..3
  BY DEF DateFormats
<1>6. \E i \in 1..3 : Matches(DateFormats[i], b) /\ DateAs(DateFormats[i], b) = v
  <2>1. CASE b = [form |-> "date", sep |-> "/", group |-> <<y, m, d>>]
    <3>1. DateAs(DateFormats[2], b) = v
      BY <1>1, <1>3, <1>5, <2>1 DEF DateAs
    <3> QED
      BY <1>3, <1>5, <2>1, <3>1 DEF Matches
  <2>2. CASE b = [form |-> "date", sep |-> "-", group |-> <<y, m, d>>]
    <3>1. DateAs(DateFormats[3], b) = v
      BY <1>1, <1>3, <1>5, <2>2 DEF DateAs
    <3> QED
      BY <1>3, <1>5, <2>2, <3>1 DEF Matches
  <2>3. CASE b = [form |-> "date", sep |-> "-", group |-> <<d, m, y>>]
    <3>1. DateAs(DateFormats[1], b) = v
      BY <1>1, <1>3, <1>5, <2>3 DEF DateAs
    <3> QED
      BY <1>3, <1>5, <2>3, <3>1 DEF Matches
  <2> QED
    BY <1>3, <2>1, <2>2, <2>3
<1> QED
  BY <1>3, <1>4, <1>5, <1>6, ReadByFormat DEF MatchingFormats

\* So is every value of a column.
LEMMA ReadsBack ==
    ASSUME NEW c \in Columns, NEW v \in Values(c), v # Null,
           NEW b \in Spellings(c, v), NEW padded
    PROVE  ReadAs(c, [padded |-> padded, body |-> b]) = v
<1>1. CASE c = "amount"
  <2>1. v \in Int /\ v \in Storables
    BY <1>1 DEF Values, Storables
  <2>2. b.form = "amount" /\ b.mills \in (10 * v - 4)..(10 * v + 4)
    BY <1>1 DEF Spellings
  <2> QED
    BY <1>1, <2>1, <2>2, RoundsBack DEF ReadAs, ParseAmount
<1>2. CASE c = "currency" \/ c = "status"
  <2>1. b.form = "word" /\ Upper[b.letters] = v
    BY <1>2 DEF Spellings, Word
  <2> QED
    BY <1>2, <2>1 DEF ReadAs, Normalise, Values
<1>3. CASE c = "date"
  <2>1. v \in Dates /\ b \in SpellingsOfDate(v)
    BY <1>3 DEF Values, Spellings
  <2> QED
    BY <1>3, <2>1, DateReadsBack DEF ReadAs
<1>4. CASE c = "category" \/ c = "other"
  <2>1. b = v /\ v # Blank
    BY <1>4 DEF Values, Spellings
  <2> QED
    BY <1>4, <2>1 DEF ReadAs
<1> QED
  BY <1>1, <1>2, <1>3, <1>4 DEF Columns, Required

\* Whatever a file holds and however its header is spelled: every value of a
\* cleaned row is what all spellings of it are read as, in whichever format a
\* date, with whichever marks an amount and in whichever casing a currency or a
\* status is written.
THEOREM SpellingNormalised == Spec => []SpellingIsIrrelevant
<1>1. ASSUME IInv PROVE SpellingIsIrrelevant
  <2> SUFFICES ASSUME NEW row \in Range(rows), NEW c \in Columns, row[c] # Null,
                      NEW b \in Spellings(c, row[c]), NEW padded \in BOOLEAN
               PROVE  ReadAs(c, [padded |-> padded, body |-> b]) = row[c]
    BY DEF SpellingIsIrrelevant
  <2>1. row \in Row
    BY <1>1 DEF IInv, CleaningTypeOK, Range
  <2>2. row[c] \in Values(c)
    BY <2>1 DEF Row
  <2> QED
    BY <2>2, ReadsBack
<1> QED
  BY <1>1, Invariant, PTL

\* "Order matters only for readability" (cleaning.py:29) is true: whatever the
\* file, no date of it is read by two of the three formats.
THEOREM FormatsAreExclusive == Spec => []OneFormatMatches
<1>1. ASSUME IInv PROVE OneFormatMatches
  <2> SUFFICES ASSUME NEW m \in DOMAIN input, NEW b,
                      b = input[m].text["date"].body, b.form = "date"
               PROVE  Cardinality(MatchingFormats(b)) <= 1
    BY DEF OneFormatMatches
  <2>1. input[m] \in Records
    BY <1>1 DEF IInv, CleaningTypeOK
  <2>2. b \in Body
    BY <2>1, CleaningAssumption DEF Columns, Required, Text
  <2>3. \A n \in 1..3 : b.group[n].digits \in Int
    BY <2>2, BodyForms, GroupDigits
  <2>4. CASE MatchingFormats(b) = {}
    BY <2>4, FS_EmptySet
  <2>5. CASE MatchingFormats(b) # {}
    <3>1. PICK i \in MatchingFormats(b) : TRUE
      BY <2>5
    <3>2. MatchingFormats(b) = {i}
      BY <2>3, <3>1, FormatsDiffer
    <3>3. Cardinality({i}) = 1
      BY FS_Singleton
    <3> QED
      BY <3>2, <3>3
  <2> QED
    BY <2>4, <2>5
<1> QED
  BY <1>1, Invariant, PTL
=============================================================================
