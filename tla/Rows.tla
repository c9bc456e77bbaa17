-------------------------------- MODULE Rows --------------------------------
(* The text of products.csv: how it is written (csv_escape, save_products), *)
(* read (csv_parse_line, load_products), judged (csv validate), indexed     *)
(* (index build, check and lookup) and copied for others (mask, export).    *)
(*                                                                          *)
(* A text is a sequence of characters; a number is one character, for no    *)
(* conversion looks into it.  Only what is printed of a price matters.      *)
EXTENDS Naturals, Sequences, SequencesExt, FiniteSetsExt

CONSTANTS
    Number,     \* numbers that may stand in a file
    Negative,   \* those of them below zero
    Printed(_), \* a number with the six digits an ostream prints
    Listing,    \* lists of products a command may save
    Foreign,    \* texts other programs may leave in products.csv
    Redacted    \* the name mask puts in place of every name

Comma == ","
Quote == "\""
Newline == "\n"
Return == "\r"

\* s is a sequence, of whatever kind.
IsSeq(s) == s \in Seq(ToSet(s))
Plain(f) == ToSet(f) \cap {Comma, Quote, Newline, Return} = {}

\* What an inventory holds: add_product refuses the rest.
IsProduct(p) ==
    /\ p = [id |-> p.id, name |-> p.name, price |-> p.price, stock |-> p.stock]
    /\ IsSeq(p.id) /\ p.id # <<>> /\ IsSeq(p.name)
    /\ p.price \in Number \ Negative /\ p.stock \in Number \ Negative
IsList(l) ==
    /\ IsSeq(l) /\ \A i \in DOMAIN l : IsProduct(l[i])
    /\ \A i, j \in DOMAIN l : l[i].id = l[j].id => i = j

ASSUME RowsAssumption ==
    /\ Negative \subseteq Number
    /\ Number \cap {Comma, Quote, Newline, Return} = {}
    /\ \A n \in Number : /\ Printed(n) \in Number /\ Printed(Printed(n)) = Printed(n)
                         /\ n \notin Negative => Printed(n) \notin Negative
    /\ \A l \in Listing : IsList(l)
    /\ \A text \in Foreign : IsSeq(text)
    /\ IsSeq(Redacted) /\ Plain(Redacted)

VARIABLES
    csv,    \* the text of products.csv
    inv,    \* the list last saved by, or found there
    by      \* who wrote it: "save", "resave" (a list just loaded) or "foreign"

RowsVars == <<csv, inv, by>>

-----------------------------------------------------------------------------
(* Writing                                                                  *)
\* Mutant of Escaped: quotes within quotes are not doubled.
EscapedOnce(f) == IF Plain(f) THEN f ELSE <<Quote>> \o f \o <<Quote>>

Escaped(f) ==
    IF Plain(f) THEN f
    ELSE <<Quote>>
         \o FlattenSeq([i \in DOMAIN f |-> IF f[i] = Quote THEN <<Quote, Quote>> ELSE <<f[i]>>])
         \o <<Quote>>

Row(id, name, p) ==
    id \o <<Comma>> \o name \o <<Comma, Printed(p.price), Comma, p.stock, Newline>>
Header == <<"id", Comma, "name", Comma, "price", Comma, "stock", Newline>>
TextOf(l) == Header \o FlattenSeq([i \in DOMAIN l |-> Row(Escaped(l[i].id), Escaped(l[i].name), l[i])])

\* Mutant of ExportText: the columns in another order.
ExportTextSwapped(l) == Header \o FlattenSeq([i \in DOMAIN l |-> Row(Escaped(l[i].name), l[i].id, l[i])])

\* mask --strategy redact escapes nothing, export products --format csv names only.
MaskText(l) == Header \o FlattenSeq([i \in DOMAIN l |-> Row(l[i].id, Redacted, l[i])])
ExportText(l) == Header \o FlattenSeq([i \in DOMAIN l |-> Row(l[i].id, Escaped(l[i].name), l[i])])

-----------------------------------------------------------------------------
(* Reading                                                                  *)
\* getline from byte `at` on: to the next newline or the end.
LineAt(text, at) ==
    LET ends == {i \in at + 1 .. Len(text) : text[i] = Newline} \cup {Len(text) + 1}
    IN SubSeq(text, at + 1, Min(ends) - 1)

\* Where the lines behind the header begin.
Offsets(text) ==
    FlattenSeq([at \in 1 .. Len(text) - 1 |-> IF text[at] = Newline THEN <<at>> ELSE <<>>])
Lines(text) == [i \in DOMAIN Offsets(text) |-> LineAt(text, Offsets(text)[i])]

\* csv_parse_line with these fields complete and these characters of the next;
\* "second": within quotes, and the character was consumed with the one before.
At(fields, cur, where) == [fields |-> fields, cur |-> cur, where |-> where]
Opened == At(<<>>, <<>>, "outside")

\* One character of csv_parse_line.
Taken(line, s, i) ==
    LET c == line[i]
        doubled == i < Len(line) /\ line[i + 1] = Quote
    IN CASE s.where = "second" -> At(s.fields, s.cur, "inside")
         [] s.where = "inside" /\ c = Quote ->
                IF doubled THEN At(s.fields, Append(s.cur, Quote), "second")
                           ELSE At(s.fields, s.cur, "outside")
         [] s.where = "outside" /\ c = Quote -> At(s.fields, s.cur, "inside")
         [] s.where = "outside" /\ c = Comma -> At(Append(s.fields, s.cur), <<>>, "outside")
         [] OTHER -> At(s.fields, Append(s.cur, c), s.where)
Fields(line) ==
    LET s[i \in 0 .. Len(line)] == IF i = 0 THEN Opened ELSE Taken(line, s[i - 1], i)
        end == s[Len(line)]
    IN Append(end.fields, end.cur)

\* stod and stoi read a number at the front, and do not mind what follows it.
IsNumber(f) == f # <<>> /\ Head(f) \in Number

\* Mutant of Loads: more columns than four will do.
LoadsLong(f) == Len(f) >= 4 /\ IsNumber(f[3]) /\ IsNumber(f[4])

Loads(f) == Len(f) = 4 /\ IsNumber(f[3]) /\ IsNumber(f[4])
Product(f) == [id |-> f[1], name |-> f[2], price |-> Head(f[3]), stock |-> Head(f[4])]

\* add_product throws, and the load with it, for what no inventory holds.
Refused(l, p) ==
    \/ p.id = <<>> \/ \E i \in DOMAIN l : l[i].id = p.id
    \/ p.price \in Negative \/ p.stock \in Negative

\* What a load has so far, and whether a refusal has ended it.
Got(list, end) == [list |-> list, end |-> end]
Add(s, line) ==
    LET f == Fields(line)
    IN IF s.end = "threw" \/ line = <<>> \/ ~Loads(f) THEN s
       ELSE IF Refused(s.list, Product(f)) THEN Got(s.list, "threw")
       ELSE Got(Append(s.list, Product(f)), s.end)
Loaded(lines) ==
    LET s[i \in 0 .. Len(lines)] == IF i = 0 THEN Got(<<>>, "done") ELSE Add(s[i - 1], lines[i])
    IN s[Len(lines)]
Load(text) == Loaded(Lines(text))

\* csv validate: four columns, and numbers where they belong; no duplicates are
\* looked for.  (Its parser is taken to be csv_parse_line.)
ValidRow(f) == Len(f) = 4 /\ IsNumber(f[3]) /\ IsNumber(f[4])
Validate(text) == \A i \in DOMAIN Lines(text) : ValidRow(Fields(Lines(text)[i]))

-----------------------------------------------------------------------------
(* The index                                                                *)
UpToComma(line) ==
    LET commas == {i \in DOMAIN line : line[i] = Comma}
    IN IF commas = {} THEN line ELSE SubSeq(line, 1, Min(commas) - 1)

\* Mutant of IndexOf: an entry holds the offset behind its row.
IndexOfNext(text) ==
    [i \in DOMAIN Offsets(text) |->
        [id |-> UpToComma(Lines(text)[i]), at |-> Offsets(text)[i] + Len(Lines(text)[i]) + 1]]

IndexOf(text) ==
    [i \in DOMAIN Offsets(text) |-> [id |-> UpToComma(Lines(text)[i]), at |-> Offsets(text)[i]]]

IndexCheck(text, idx) == \A i \in DOMAIN idx : UpToComma(LineAt(text, idx[i].at)) = idx[i].id
\* The offsets `index lookup` may print: that of the first entry of the id.
Lookup(idx, id) ==
    {idx[i].at : i \in {j \in DOMAIN idx : idx[j].id = id /\ \A k \in 1 .. j - 1 : idx[k].id # id}}

-----------------------------------------------------------------------------
RowsInit == csv = Header /\ inv = <<>> /\ by = "save"

\* A command saves a list; the order of its rows is that of a hash table, so
\* a list may be saved in any order.
Save(l) ==
    csv' = TextOf(l) /\ inv' = l /\ by' = "save"

\* A command loads the list and saves it again; a load that throws ends it.
Resave ==
    /\ Load(csv).end = "done"
    /\ \E l \in SetToSeqs(ToSet(Load(csv).list)) : csv' = TextOf(l) /\ inv' = l
    /\ by' = "resave"

Overwrite(text) == csv' = text /\ inv' = Load(text).list /\ by' = "foreign"

RowsNext ==
    \/ \E l \in Listing : Save(l)
    \/ \E text \in Foreign : Overwrite(text)
    \/ Resave

RowsSpec == RowsInit /\ [][RowsNext]_RowsVars

-----------------------------------------------------------------------------
OneLine(l) == \A i \in DOMAIN l : Newline \notin ToSet(l[i].id) \cup ToSet(l[i].name)
WithoutComma(l) == FlattenSeq([i \in DOMAIN l |-> IF Comma \in ToSet(l[i].id) THEN <<>> ELSE <<l[i]>>])
AsPrinted(l) == [i \in DOMAIN l |-> [l[i] EXCEPT !.price = Printed(@)]]
Saved == by # "foreign"

\* docs/WHITEPAPER.md:9 "CSV (RFC 4180)": a load finds the products a save has
\* written, whatever commas and quotes are in their fields, with their prices
\* as printed.  (Fields with a newline: see RoundTripAlways.)
RoundTrip == Saved /\ OneLine(inv) => Load(csv) = Got(AsPrinted(inv), "done")

\* EXITCODES.md:5: `csv validate` reports exactly the files of which a load
\* would drop a row without a word.
ValidateFindsSkipped ==
    Load(csv).end = "done" => (Validate(csv) <=> Len(Load(csv).list) = Len(Lines(csv)))

\* docs/INDEXING.md:3: of an index of the file as it is the check approves, and
\* a plain id is looked up to the row a load takes it from.
IndexFinds ==
    Saved /\ OneLine(inv) =>
        /\ IndexCheck(csv, IndexOf(csv))
        /\ \A i \in DOMAIN inv : Plain(inv[i].id) =>
             \E at \in Lookup(IndexOf(csv), inv[i].id) :
                Product(Fields(LineAt(csv, at))) = AsPrinted(inv)[i]

\* docs/MASKING.md:7, docs/IMPORT_EXPORT.md:9: as long as no id has a quote or
\* a newline, what mask and export write loads without error as the products
\* whose id has no comma, and nothing else.  (The others are lost.)
CopiesKeepPlainIds ==
    (\A i \in DOMAIN inv : {Quote, Newline} \cap ToSet(inv[i].id) = {}) /\ OneLine(inv) =>
        LET kept == AsPrinted(WithoutComma(inv))
            masked == [i \in DOMAIN kept |-> [kept[i] EXCEPT !.name = Redacted]]
        IN /\ Load(ExportText(inv)) = Got(kept, "done")
           /\ Load(MaskText(inv)) = Got(masked, "done")

\* tests/test_csv_edge.cpp:21: a product whose id has a newline in it is found
\* after a save and a load.
RoundTripAlways ==
    by = "save" => \A i \in DOMAIN inv : \E j \in DOMAIN Load(csv).list : Load(csv).list[j].id = inv[i].id
=============================================================================
