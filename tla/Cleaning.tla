------------------------------ MODULE Cleaning ------------------------------
(***************************************************************************)
(* clean_rows (app/services/cleaning.py): one record of the CSV after the   *)
(* other is parsed, dropped, or kept unless an equal row was kept before.   *)
(*                                                                          *)
(* A text, padded with spaces or not, has a body: a number in thousandths,  *)
(* marked by "$", "," or inner spaces or not; three groups of digits around *)
(* two separators; a word, which is any other text; or nothing, which also  *)
(* stands for a column the record does not have.  "other" stands for        *)
(* txn_id, merchant, account_id and notes, which are only stripped.  Left   *)
(* out: numbers with more than three decimals, and NaN, which differs from  *)
(* itself.                                                                  *)
(***************************************************************************)
EXTENDS Integers, Sequences, FiniteSets, Functions

CONSTANTS
    Words, Upper,             \* str.upper, as a function on Words
    Currencies, Statuses,     \* the values of the enums
    UncategorisedWord, Null,
    MaxCents,                 \* what Decimal's 28 digits hold
    Records,                  \* the records a file may have
    MaxRecords

Required == {"amount", "currency", "status"}
Columns == Required \cup {"date", "category", "other"}

\* A group of one to four digits, and the number it spells.
Spells(digits, n) ==
    (digits = 1 => n < 10) /\ (digits = 2 => n < 100) /\ (digits = 3 => n < 1000)

Group == {g \in [digits : 1..4, n : 0..9999] : Spells(g.digits, g.n)}

Blank == [form |-> "blank"]
Word(w) == [form |-> "word", letters |-> w]

Amounts == [form : {"amount"}, mills : Int, marked : BOOLEAN]
DateTexts == [form : {"date"}, sep : {"-", "/"}, group : [1..3 -> Group]]

Body == Amounts \cup DateTexts \cup {Word(w) : w \in Words} \cup {Blank}

Text == [padded : BOOLEAN, body : Body]

Leap(y) == y % 4 = 0 /\ (y % 100 # 0 \/ y % 400 = 0)

Days(y, m) ==
    CASE m \in {4, 6, 9, 11} -> 30
      [] m = 2               -> IF Leap(y) THEN 29 ELSE 28
      [] OTHER               -> 31

\* datetime.date
Dates == {date \in [y : 1..9999, m : 1..12, d : 1..31] : date.d <= Days(date.y, date.m)}

\* surplus: the line has more fields than the header.
ASSUME CleaningAssumption ==
    /\ Upper \in [Words -> Words]
    /\ Currencies \cup Statuses \cup {UncategorisedWord} \subseteq Words
    /\ \A w \in Currencies \cup Statuses : Upper[w] = w
    /\ Null \notin Int \cup Dates \cup Body \cup Words
    /\ MaxCents \in Nat
    /\ Records \subseteq [text : [Columns -> Text], surplus : BOOLEAN]
    /\ MaxRecords \in Nat

VARIABLES
    header,      \* the columns whose header is spelled as in REQUIRED_CSV_COLUMNS
    input,       \* the records read so far
    rows,        \* the cleaned rows kept
    raw_count,
    phase        \* reading -> done, or raised

cleaningVars == <<header, input, rows, raw_count, phase>>

Uncategorised == Word(UncategorisedWord)

Storables == {c \in Int : -MaxCents <= c /\ c <= MaxCents}

\* What a cell of each column may become.
Values(c) ==
    CASE c = "amount"   -> Storables \cup {Null}
      [] c = "currency" -> Currencies \cup {Null}
      [] c = "status"   -> Statuses \cup {Null}
      [] c = "date"     -> Dates \cup {Null}
      [] c = "category" -> Body \ {Blank}
      [] OTHER          -> (Body \ {Blank}) \cup {Null}

AnyValue == Int \cup Dates \cup Body \cup Words \cup {Null}

Row == {row \in [Columns -> AnyValue] : \A c \in Columns : row[c] \in Values(c)}

CleaningTypeOK ==
    /\ header \subseteq Columns
    /\ input \in Seq(Records)
    /\ rows \in Seq(Row)
    /\ raw_count \in Nat
    /\ phase \in {"reading", "done", "raised"}

\* _validate_csv_header has accepted any casing and any spaces around.
Init ==
    /\ header \in SUBSET Columns
    /\ input = <<>>
    /\ rows = <<>>
    /\ raw_count = 0
    /\ phase = "reading"

-----------------------------------------------------------------------------
\* record.get(column) finds a column only under its exact name.
Cell(hdr, raw, c) ==
    IF c \in hdr THEN raw.text[c] ELSE [padded |-> FALSE, body |-> Blank]

\* Mutant: the fraction of a cent is cut off.
CentsCutOff(mills) == mills \div 10

\* quantize(Decimal("0.01")): to the nearest cent, a half to the even one.
Cents(mills) ==
    LET q == mills \div 10
        r == mills % 10
    IN  IF r < 5 \/ (r = 5 /\ q % 2 = 0) THEN q ELSE q + 1

\* _parse_amount: marks do not matter; InvalidOperation above 28 digits.
ParseAmount(b) ==
    IF b.form = "amount" /\ Cents(b.mills) \in Storables THEN Cents(b.mills) ELSE Null

\* _normalise_currency, _normalise_status
Normalise(b, enum) ==
    IF b.form = "word" /\ Upper[b.letters] \in enum THEN Upper[b.letters] ELSE Null

\* Mutant: dates with the month first are read as well.
DateFormatsMonthFirst ==
    <<[sep |-> "-", y |-> 3, m |-> 2, d |-> 1], [sep |-> "/", y |-> 1, m |-> 2, d |-> 3],
      [sep |-> "-", y |-> 1, m |-> 2, d |-> 3], [sep |-> "-", y |-> 3, m |-> 1, d |-> 2]>>

\* _DATE_FORMATS: the separator and which group is year, month and day.
DateFormats ==
    <<[sep |-> "-", y |-> 3, m |-> 2, d |-> 1],
      [sep |-> "/", y |-> 1, m |-> 2, d |-> 3],
      [sep |-> "-", y |-> 1, m |-> 2, d |-> 3]>>

DateAs(f, b) == [y |-> b.group[f.y].n, m |-> b.group[f.m].n, d |-> b.group[f.d].n]

\* strptime: %Y takes four digits, %m and %d one or two.
Matches(f, b) ==
    /\ b.sep = f.sep
    /\ b.group[f.y].digits = 4 /\ b.group[f.m].digits <= 2 /\ b.group[f.d].digits <= 2
    /\ DateAs(f, b) \in Dates

MatchingFormats(b) == {i \in DOMAIN DateFormats : Matches(DateFormats[i], b)}

\* _parse_date: the first format that does not raise.
ParseDate(b) ==
    IF b.form # "date" \/ MatchingFormats(b) = {} THEN Null
    ELSE LET first == CHOOSE i \in MatchingFormats(b) : \A k \in MatchingFormats(b) : i <= k
         IN  DateAs(DateFormats[first], b)

\* Strips the text and reads it as the column's value.
ReadAs(c, text) ==
    LET b == text.body
    IN  CASE c = "amount"   -> ParseAmount(b)
          [] c = "currency" -> Normalise(b, Currencies)
          [] c = "status"   -> Normalise(b, Statuses)
          [] c = "date"     -> ParseDate(b)
          [] c = "category" -> IF b = Blank THEN Uncategorised ELSE b
          [] OTHER          -> IF b = Blank THEN Null ELSE b

CleanRow(hdr, raw) == [c \in Columns |-> ReadAs(c, Cell(hdr, raw, c))]

\* any() looks at all fields, whatever their columns are called.
BlankLine(raw) == \A c \in Columns : raw.text[c].body = Blank

Storable(hdr, raw) == \A c \in Required : CleanRow(hdr, raw)[c] # Null

Reads(raw) ==
    /\ phase = "reading" /\ Len(input) < MaxRecords
    /\ input' = Append(input, raw)
    /\ UNCHANGED header

SkipBlank(raw) ==
    /\ Reads(raw)
    /\ BlankLine(raw) /\ ~raw.surplus
    /\ UNCHANGED <<rows, raw_count, phase>>

\* DictReader puts surplus fields into a list, and a list has no strip();
\* any() gets to it only if all other fields are blank.
RaiseOnSurplus(raw) ==
    /\ Reads(raw)
    /\ BlankLine(raw) /\ raw.surplus
    /\ phase' = "raised"
    /\ UNCHANGED <<rows, raw_count>>

\* Mutant: dropped rows are not counted.
DropInvalidUncounted(raw) ==
    /\ Reads(raw)
    /\ ~BlankLine(raw) /\ ~Storable(header, raw)
    /\ UNCHANGED <<rows, raw_count, phase>>

DropInvalid(raw) ==
    /\ Reads(raw)
    /\ ~BlankLine(raw) /\ ~Storable(header, raw)
    /\ raw_count' = raw_count + 1
    /\ UNCHANGED <<rows, phase>>

\* Mutant: only the row before is looked at.
SeenLast(row) == rows # <<>> /\ row = rows[Len(rows)]

\* key in seen
Seen(row) == row \in Range(rows)

KeepRow(raw) ==
    /\ Reads(raw)
    /\ ~BlankLine(raw) /\ Storable(header, raw)
    /\ raw_count' = raw_count + 1
    /\ rows' = IF Seen(CleanRow(header, raw)) THEN rows ELSE Append(rows, CleanRow(header, raw))
    /\ UNCHANGED phase

Finish ==
    /\ phase = "reading"
    /\ phase' = "done"
    /\ UNCHANGED <<header, input, rows, raw_count>>

Next ==
    \/ \E raw \in Records :
          SkipBlank(raw) \/ RaiseOnSurplus(raw) \/ DropInvalid(raw) \/ KeepRow(raw)
    \/ Finish

Spec == Init /\ [][Next]_cleaningVars

-----------------------------------------------------------------------------
Yields(hdr, raw, row) ==
    ~BlankLine(raw) /\ Storable(hdr, raw) /\ CleanRow(hdr, raw) = row

\* The cleaned rows are the storable records, each once, in the order of
\* their first appearance: nothing valid is lost, nothing is doubled.
KeepsFirsts ==
    /\ IsInjective(rows)
    /\ \A m \in DOMAIN input :
          ~BlankLine(input[m]) /\ Storable(header, input[m])
          => CleanRow(header, input[m]) \in Range(rows)
    /\ \A j \in DOMAIN rows : \E m \in DOMAIN input :
          /\ Yields(header, input[m], rows[j])
          /\ \A i \in 1..(j - 1) : \E n \in 1..(m - 1) : Yields(header, input[n], rows[i])
          /\ \A n \in 1..(m - 1) : ~Yields(header, input[n], rows[j])

\* row_count_raw counts the records that are not blank, dropped ones and
\* duplicates included, and row_count_clean is never above it.
CountsAddUp ==
    /\ raw_count = Cardinality({m \in DOMAIN input : ~BlankLine(input[m])})
    /\ Len(rows) <= raw_count

\* The texts that mean a value, written down without the parser: numbers less
\* than half a cent away, any casing, and dates with the day first between
\* dashes or the year first between either, with or without leading zeros.
Short(n) == {g \in [digits : 1..2, n : {n}] : Spells(g.digits, n)}

SpellingsOfDate(date) ==
    {[form |-> "date", sep |-> s, group |-> <<[digits |-> 4, n |-> date.y], m, d>>] :
        s \in {"-", "/"}, m \in Short(date.m), d \in Short(date.d)}
    \cup
    {[form |-> "date", sep |-> "-", group |-> <<d, m, [digits |-> 4, n |-> date.y]>>] :
        m \in Short(date.m), d \in Short(date.d)}

Spellings(c, v) ==
    CASE c = "amount" ->
            [form : {"amount"}, mills : (10 * v - 4)..(10 * v + 4), marked : BOOLEAN]
      [] c \in {"currency", "status"} -> {Word(w) : w \in {u \in Words : Upper[u] = v}}
      [] c = "date" -> SpellingsOfDate(v)
      [] OTHER -> {v}

\* Whatever the file, every value a cleaned row holds is one that all its
\* spellings are read as: rows that mean the same are equal, so that the
\* comparison after cleaning finds the duplicates written in different ways.
SpellingIsIrrelevant ==
    \A row \in Range(rows), c \in Columns :
        row[c] # Null =>
            \A b \in Spellings(c, row[c]), padded \in BOOLEAN :
                ReadAs(c, [padded |-> padded, body |-> b]) = row[c]

\* "Order matters only for readability" (cleaning.py:29): no text of a file
\* is a date in two formats.
OneFormatMatches ==
    \A m \in DOMAIN input :
        LET b == input[m].text["date"].body
        IN  b.form = "date" => Cardinality(MatchingFormats(b)) <= 1

\* "The upload validator and any future parser agree on the same column
\* contract", which is "compared case-insensitively" (constants.py:7-12): a
\* record that can be stored under the expected header is kept.
AcceptedColumnsAreRead ==
    \A m \in DOMAIN input :
        LET expected == CleanRow(Columns, input[m])
        IN  (\A c \in Required : expected[c] # Null)
            => \E row \in Range(rows) : \A c \in Required : row[c] = expected[c]
=============================================================================
