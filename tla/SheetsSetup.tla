---------------------------- MODULE SheetsSetup ----------------------------
(***************************************************************************)
(* The setup of a spreadsheet: some sixteen calls of the Sheets API, each  *)
(* atomic at Google, none undone when a later one fails.  A call that ends *)
(* with a 5xx may have been carried out and is repeated as it was; a setup *)
(* may die between two calls and be started again; one that exceeded the   *)
(* engine's time limit counts as ended and goes on beside its successor    *)
(* and beside a writer.                                                    *)
(*                                                                         *)
(* Columns are addressed by position in every call: the header row, named  *)
(* ranges, validations, the rows a writer stores.  The layouts are the     *)
(* catalogs the pipeline is set up with over time.                         *)
(***************************************************************************)
EXTENDS Integers, FiniteSets, SequencesExt

CONSTANTS
    Stream,
    Layouts,        \* the catalogs over time: for each stream its columns and their enums
    PrimaryKey,     \* the columns of the primary key
    Linked,         \* the streams with a page in the Stripe dashboard
    Examples,       \* the columns each example section needs
    Width,          \* bound: columns of a tab
    MaxSetups,      \* bound: setups begun
    MaxFaults       \* bound: lost replies, deaths and timeouts

VARIABLES
    doc,        \* the spreadsheet
    layout,     \* the index of the current layout
    setup,      \* two setups: the current one and perhaps a late one
    writer,     \* a write() in progress: the headers it has cached
    begun,      \* setups begun so far
    faults,     \* faults so far
    ruled       \* history: the enum last set for each column, by name

workbook == <<doc, layout, setup, writer, begun, faults, ruled>>

Setups  == {1, 2}
Column  == 1 .. Width
None    == "none"
Open    == "open"     \* the computed column of links to the dashboard

Fields(l, s)  == Layouts[l][s].columns
Enum(l, s, f) == Layouts[l][s].enum[f]
Present(l)    == {s \in Stream : Fields(l, s) # <<>>}
AllFields     == UNION {Range(Fields(l, s)) : l \in DOMAIN Layouts, s \in Stream}
EnumLists     == {None} \cup UNION {{Enum(l, s, f) : f \in Range(Fields(l, s))} :
                                        l \in DOMAIN Layouts, s \in Stream}

\* the fields of an object have distinct names, none of them that of the column
\* of links; every layout leaves room for that column
ASSUME SetupAssumption ==
    /\ Layouts \in Seq(Range(Layouts)) /\ Layouts # <<>>
    /\ \A l \in DOMAIN Layouts, s \in Stream :
          /\ Fields(l, s) \in Seq(STRING \ {Open}) /\ Len(Fields(l, s)) < Width
          /\ IsInjective(Fields(l, s))
    /\ PrimaryKey \in Seq(AllFields) /\ IsFiniteSet(Examples)
    /\ {Width, MaxSetups} \subseteq Nat \ {0} /\ MaxFaults \in Nat

NoTab    == [at |-> FALSE, header |-> <<>>, cells |-> [c \in Column |-> {}],
             rules |-> [c \in Column |-> None], protected |-> 0, band |-> 0]
EmptyTab == [NoTab EXCEPT !.at = TRUE]

\* what the fetches return of a spreadsheet, their ids included
Meta(d) ==
    [tabs |-> {s \in Stream : d.tabs[s].at}, sheet1 |-> d.sheet1, overview |-> d.overview,
     examples |-> d.examples, made |-> d.made, names |-> d.names,
     protected |-> {s \in Stream : d.tabs[s].protected > 0},
     band |-> [s \in Stream |-> d.tabs[s].band]]
NoMeta == Meta([tabs |-> [s \in Stream |-> NoTab], sheet1 |-> FALSE, overview |-> FALSE,
                names |-> 0, examples |-> FALSE, made |-> 0])

NoHeaders  == [s \in Stream |-> <<>>]
NoSetup    == [at |-> "off", seen |-> NoMeta, tab |-> 0, alone |-> TRUE, hurt |-> FALSE]

SetupInit ==
    /\ doc = [tabs |-> [s \in Stream |-> NoTab], sheet1 |-> TRUE, overview |-> FALSE,
              named |-> {}, names |-> 0,
              examples |-> FALSE, made |-> 0, sections |-> {}, charts |-> 0]
    /\ layout = 1
    /\ setup = [i \in Setups |-> NoSetup]
    /\ writer = [at |-> "off", headers |-> NoHeaders, beside |-> FALSE]
    /\ begun = 0 /\ faults = 0
    /\ ruled = [s \in Stream |-> [f \in AllFields |-> None]]

-----------------------------------------------------------------------------
(* Calls.                                                                  *)

Steps == <<"meta", "tabs", "headers", "listNames", "names", "metaAfter", "checkEnums",
           "enums", "intro", "dropExamples", "examples", "charts", "protect",
           "listBands", "format", "links", "done">>

After(step) == Steps[CHOOSE n \in DOMAIN Steps : n > 1 /\ Steps[n - 1] = step]
Stopped     == {"off", "done", "failed", "changed", "dead"}
Running(i)  == setup[i].at \notin Stopped

Fault == faults < MaxFaults /\ faults' = faults + 1

Fetch(i, step) ==
    /\ setup[i].at = step
    /\ setup' = [setup EXCEPT ![i].at = After(step), ![i].seen = Meta(doc)]
    /\ UNCHANGED <<doc, layout, writer, begun, faults, ruled>>

\* withRetry: a reply that is lost repeats the call as it was; a call that the
\* API rejects with 4xx fails the setup
Call(i, step, accepted, new) ==
    /\ setup[i].at = step
    /\ doc' = IF accepted THEN new ELSE doc
    /\ \/ /\ setup' = [setup EXCEPT ![i].at = IF accepted THEN After(step) ELSE "failed",
                                        ![i].tab = doc'.made]
          /\ UNCHANGED faults
       \/ /\ accepted /\ new # doc /\ Fault
          /\ setup' = [setup EXCEPT ![i].hurt = TRUE]
    /\ UNCHANGED <<layout, writer, begun>>

-----------------------------------------------------------------------------
(* ensureSheets.                                                           *)

\* the first missing tab takes over Sheet1, the others are added
CreateTabs(i) ==
    LET missing == Present(layout) \ setup[i].seen.tabs
        taken   == setup[i].seen.sheet1 /\ missing # {}
    IN  /\ Call(i, "tabs",
                \* Sheet1, found by its id, may already have become the first one
                \A s \in missing : doc.tabs[s].at =>
                    taken /\ ~doc.sheet1 /\ s = CHOOSE m \in missing : TRUE,
                [doc EXCEPT
                    !.tabs = [s \in Stream |->
                        IF s \in missing /\ ~doc.tabs[s].at THEN EmptyTab ELSE doc.tabs[s]],
                    !.sheet1 = @ /\ ~taken])
        /\ UNCHANGED ruled

Overlaid(new, old) == [c \in 1 .. Max({Len(new), Len(old)}) |->
                          IF c <= Len(new) THEN new[c] ELSE old[c]]

\* header rows written from the first column on, over what is there
HeadersOver(rows) ==
    [doc EXCEPT !.tabs = [s \in Stream |->
        IF s \in DOMAIN rows
        THEN [doc.tabs[s] EXCEPT !.header = Overlaid(rows[s], doc.tabs[s].header)]
        ELSE doc.tabs[s]]]

WriteHeaders(i) ==
    /\ Call(i, "headers", TRUE, HeadersOver([s \in Present(layout) |-> Fields(layout, s)]))
    /\ UNCHANGED ruled

-----------------------------------------------------------------------------
(* ensureNamedRanges: those fetched are deleted, those wanted are added, in *)
(* one batch.  doc.names counts the batches, in place of the ranges' ids.   *)

Positions(l, s) == {<<s, Fields(l, s)[c], c>> : c \in DOMAIN Fields(l, s)}
Wanted(l)       == UNION {Positions(l, s) : s \in Present(l)}
NamesOf(named)  == {<<n[1], n[2]>> : n \in named}

OtherNames(wanted) == {n \in doc.named : <<n[1], n[2]>> \notin NamesOf(wanted)}

RecreateNames(i) ==
    /\ Call(i, "names", setup[i].seen.names = doc.names,
            [doc EXCEPT !.named = OtherNames(Wanted(layout)) \cup Wanted(layout), !.names = @ + 1])
    /\ UNCHANGED ruled

-----------------------------------------------------------------------------
(* Enum validations.                                                       *)

\* readEnumValidations: by position, the header comes from the new layout
RuleRead(d, s, f) ==
    LET c == CHOOSE n \in DOMAIN Fields(layout, s) : Fields(layout, s)[n] = f
    IN  d.tabs[s].rules[c]

FirstEnumChanged ==
    \E s \in Present(layout) :
        LET f == Fields(layout, s)[1]
        IN  /\ doc.tabs[s].at /\ RuleRead(doc, s, f) # None
            /\ Enum(layout, s, f) # RuleRead(doc, s, f)
EnumsChanged ==
    \E s \in Present(layout) : \E f \in Range(Fields(layout, s)) :
        /\ doc.tabs[s].at
        /\ Enum(layout, s, f) # None /\ RuleRead(doc, s, f) # None
        /\ Enum(layout, s, f) # RuleRead(doc, s, f)

CheckEnums(i) ==
    /\ setup[i].at = "checkEnums"
    /\ setup' = [setup EXCEPT ![i].at = IF EnumsChanged THEN "changed" ELSE After(@)]
    /\ UNCHANGED <<doc, layout, writer, begun, faults, ruled>>

\* every column of the layout gets its rule, or none
SetEnums(i) ==
    /\ Call(i, "enums", TRUE,
            [doc EXCEPT !.tabs = [s \in Stream |->
                [doc.tabs[s] EXCEPT !.rules = [c \in Column |->
                    IF c <= Len(Fields(layout, s)) THEN Enum(layout, s, Fields(layout, s)[c])
                    ELSE @[c]]]]])
    /\ ruled' = [s \in Stream |-> [f \in AllFields |->
                    IF f \in Range(Fields(layout, s)) THEN Enum(layout, s, f) ELSE ruled[s][f]]]

-----------------------------------------------------------------------------
(* Overview and Examples.                                                  *)

\* Sheet1 becomes the Overview only where it is the only tab
EnsureIntro(i) ==
    LET d == setup[i].seen
        only == d.sheet1 /\ ~d.overview /\ ~d.examples /\ d.tabs = {}
    IN  /\ Call(i, "intro", d.overview \/ ~doc.overview,
                [doc EXCEPT !.overview = TRUE, !.sheet1 = @ /\ ~only])
        /\ UNCHANGED ruled

Sections(l) == {e \in Examples : e \subseteq NamesOf(Wanted(l))}

\* the tab is found by its id, for which doc.made stands; without any section
\* an Examples tab is left alone
DropExamples(i) ==
    LET seen == setup[i].seen
        drops == Sections(layout) # {} /\ seen.examples
    IN  /\ Call(i, "dropExamples", drops => doc.examples /\ doc.made = seen.made,
                IF drops THEN [doc EXCEPT !.examples = FALSE, !.sections = {}, !.charts = 0]
                ELSE doc)
        /\ UNCHANGED ruled

CreateExamples(i) ==
    LET wanted == Sections(layout)
    IN  /\ Call(i, "examples", wanted # {} => ~doc.examples,
                IF wanted = {} THEN doc
                ELSE [doc EXCEPT !.examples = TRUE, !.made = @ + 1, !.sections = wanted])
        /\ UNCHANGED ruled

AddCharts(i) ==
    /\ Call(i, "charts", Sections(layout) = {} \/ (doc.examples /\ doc.made = setup[i].tab),
            [doc EXCEPT !.charts = @ + Cardinality(Sections(layout))])
    /\ UNCHANGED ruled

-----------------------------------------------------------------------------
(* Protection and formatting of the data tabs.                             *)

Protect(i) ==
    /\ Call(i, "protect", TRUE,
            [doc EXCEPT !.tabs = [s \in Stream |->
                [doc.tabs[s] EXCEPT !.protected =
                    IF s \in Present(layout) /\ s \notin setup[i].seen.protected
                    THEN @ + 1 ELSE @]]])
    /\ UNCHANGED ruled

\* the band fetched is deleted and a new one is added, in one batch; tab.band
\* counts the batches, in place of the band's id
Format(i) ==
    /\ Call(i, "format",
            \A s \in Present(layout) : setup[i].seen.band[s] = doc.tabs[s].band,
            [doc EXCEPT !.tabs = [s \in Stream |->
                [doc.tabs[s] EXCEPT !.band = IF s \in Present(layout) THEN @ + 1 ELSE @]]])
    /\ UNCHANGED ruled

\* Mutant: the link in the last column of the layout.
LinkedHeaderOneOff(s) == Append(Front(Fields(layout, s)), Open)
\* one past the last column of the layout
LinkedHeader(s) == Append(Fields(layout, s), Open)

WriteLinks(i) ==
    /\ Call(i, "links", TRUE,
            HeadersOver([s \in Present(layout) \cap Linked |-> LinkedHeader(s)]))
    /\ UNCHANGED ruled

-----------------------------------------------------------------------------
(* Who calls setup and write.                                              *)

NoneRunning == \A i \in Setups : ~Running(i)

\* another setup, of the next layout perhaps; beside one that is still running
\* only after a timeout
BeginSetup(i, l) ==
    /\ ~Running(i) /\ begun < MaxSetups /\ writer.at = "off"
    /\ l >= layout
    /\ \/ NoneRunning /\ UNCHANGED faults
       \/ ~NoneRunning /\ l = layout /\ Fault
    /\ layout' = l
    /\ begun' = begun + 1
    /\ setup' = [j \in Setups |->
           IF j = i THEN [NoSetup EXCEPT !.at = "meta", !.alone = NoneRunning]
           ELSE IF Running(j) THEN [setup[j] EXCEPT !.alone = FALSE]
           ELSE NoSetup]
    /\ UNCHANGED <<doc, writer, ruled>>

Die(i) ==
    /\ Running(i) /\ Fault
    /\ setup' = [setup EXCEPT ![i].at = "dead"]
    /\ UNCHANGED <<doc, layout, writer, begun, ruled>>

\* a sync follows a setup that ended, or timed out
BeginWrite ==
    /\ writer.at = "off"
    /\ \/ NoneRunning /\ (\E i \in Setups : setup[i].at = "done") /\ UNCHANGED faults
       \/ ~NoneRunning /\ Fault
    /\ writer' = [writer EXCEPT !.at = "open", !.beside = @ \/ ~NoneRunning]
    /\ setup' = [i \in Setups |-> IF Running(i) THEN [setup[i] EXCEPT !.alone = FALSE]
                                  ELSE NoSetup]
    /\ UNCHANGED <<doc, layout, begun, ruled>>

\* the members of S in a sequence, in their order
Those(q, S) ==
    LET at == {c \in DOMAIN q : q[c] \in S}
    IN  [n \in 1 .. Cardinality(at) |->
            q[CHOOSE c \in at : Cardinality({d \in at : d <= c}) = n]]

\* ensureHeadersForRecord, of a record with these columns: a cached header is
\* trusted, a tab without one gets the primary key and the columns as they come
FirstHeader(s, columns) ==
    Those(PrimaryKey, columns) \o Those(Fields(layout, s), columns \ Range(PrimaryKey))

HeadersFor(s, columns) ==
    LET cached == writer.headers[s]
        known  == IF cached # <<>> THEN cached
                  ELSE IF doc.tabs[s].header # <<>> THEN doc.tabs[s].header
                  ELSE FirstHeader(s, columns)
    IN  known \o Those(Fields(layout, s), columns \ Range(known))

WriteRow(s, columns) ==
    LET headers == HeadersFor(s, columns)
        isNew   == headers # writer.headers[s] /\ headers # doc.tabs[s].header
    IN  /\ writer.at = "open" /\ Len(headers) <= Width
        /\ writer' = [writer EXCEPT !.headers[s] = headers]
        /\ doc' = [doc EXCEPT !.sheet1 = @ /\ doc.tabs[s].at, !.tabs[s] =
               [doc.tabs[s] EXCEPT
                   !.at = TRUE,
                   !.header = IF isNew THEN Overlaid(headers, @) ELSE @,
                   !.cells = [c \in Column |->
                       IF c <= Len(headers) THEN @[c] \cup ({headers[c]} \cap columns)
                       ELSE @[c]]]]
        /\ UNCHANGED <<layout, setup, begun, faults, ruled>>

EndWrite ==
    /\ writer.at = "open"
    /\ writer' = [writer EXCEPT !.at = "off", !.headers = NoHeaders]
    /\ UNCHANGED <<doc, layout, setup, begun, faults, ruled>>

SetupNext ==
    \/ \E i \in Setups :
        \/ \E l \in DOMAIN Layouts : BeginSetup(i, l)
        \/ \E step \in {"meta", "listNames", "metaAfter", "listBands"} : Fetch(i, step)
        \/ CreateTabs(i) \/ WriteHeaders(i) \/ RecreateNames(i) \/ CheckEnums(i) \/ SetEnums(i)
        \/ EnsureIntro(i) \/ DropExamples(i) \/ CreateExamples(i) \/ AddCharts(i)
        \/ Protect(i) \/ Format(i) \/ WriteLinks(i) \/ Die(i)
    \/ BeginWrite \/ EndWrite
    \/ \E s \in Present(layout) :
        \E columns \in {Range(Fields(layout, s)), Range(PrimaryKey)} : WriteRow(s, columns)

SetupSpec == SetupInit /\ [][SetupNext]_workbook

-----------------------------------------------------------------------------
(* Correctness.                                                            *)

Step == Range(Steps) \cup Stopped
DataTab == [at : BOOLEAN, header : Seq(AllFields \cup {Open}),
            cells : [Column -> SUBSET AllFields],
            rules : [Column -> EnumLists], protected : Nat, band : Nat]

\* The state is well typed, and no header is wider than the tab.
SetupTyped ==
    /\ \A s \in Stream : doc.tabs[s] \in DataTab /\ Len(doc.tabs[s].header) <= Width
    /\ doc.named \subseteq Stream \X AllFields \X Column
    /\ doc.sections \subseteq Examples
    /\ {doc.sheet1, doc.overview, doc.examples, writer.beside} \subseteq BOOLEAN
    /\ {doc.names, doc.made, doc.charts} \subseteq Nat
    /\ layout \in DOMAIN Layouts
    /\ \A i \in Setups : /\ setup[i].at \in Step /\ setup[i].tab \in 0 .. doc.made
                         /\ {setup[i].alone, setup[i].hurt} \subseteq BOOLEAN
    /\ writer.at \in {"off", "open"}
    /\ \A s \in Stream : writer.headers[s] \in Seq(AllFields \cup {Open})
    /\ begun \in 0 .. MaxSetups /\ faults \in 0 .. MaxFaults

\* every layout so far has kept the columns of the earlier ones where they were
ColumnsKept == \A l, m \in 1 .. layout : \A s \in Stream :
                  l <= m /\ Fields(l, s) # <<>> => IsPrefix(Fields(l, s), Fields(m, s))

\* The values below a header are those of the column it names: setups that die,
\* repeat calls or run beside each other, headers cached by a writer and columns
\* that records bring along never shift them.  It needs layouts that only grow at
\* the end, and no write() beside a setup that the time limit ended.
RowsAligned ==
    ColumnsKept /\ ~writer.beside =>
        \A s \in Stream : \A c \in Column :
            doc.tabs[s].cells[c] # {} =>
                /\ c <= Len(doc.tabs[s].header)
                /\ doc.tabs[s].cells[c] = {doc.tabs[s].header[c]}

Matches(l, s) ==
    LET tab == doc.tabs[s]
        n   == Len(Fields(l, s))
    IN  /\ tab.at /\ IsPrefix(Fields(l, s), tab.header)
        /\ s \in Linked => tab.header[n + 1] = Open
        /\ \A c \in 1 .. n : tab.rules[c] = Enum(l, s, Fields(l, s)[c])
        /\ tab.protected > 0 /\ tab.band > 0

\* A setup that went through alone leaves everything as the layout wants it,
\* whatever earlier ones left half done: one named range per column, at its
\* position, its enums, one chart for each example, the links beside the data.
SetupConverges ==
    \A i \in Setups :
        setup[i].at = "done" /\ setup[i].alone /\ ~setup[i].hurt =>
            /\ doc.overview
            /\ \A s \in Present(layout) : Matches(layout, s)
            /\ \A n \in doc.named : <<n[1], n[2]>> \in NamesOf(Wanted(layout)) =>
                  n \in Wanted(layout)
            /\ Wanted(layout) \subseteq doc.named
            /\ Sections(layout) # {} =>
                  doc.sections = Sections(layout) /\ doc.charts = Cardinality(doc.sections)

\* Nothing an earlier setup or a writer left behind makes the API reject a later
\* setup: one that is alone and loses no reply does not fail.
SetupGoesThrough ==
    \A i \in Setups : setup[i].at = "failed" => setup[i].hurt \/ ~setup[i].alone

\* "Fail loud on changed enum lists": no setup replaces the enum of a column by
\* another one, as long as the layouts keep their columns where they were.
EnumsKept ==
    [][ColumnsKept' => \A s \in Stream : \A f \in AllFields :
          ruled[s][f] # None => ruled'[s][f] \in {ruled[s][f], None}]_workbook

\* Setups that overlap, die and repeat each other's calls keep the document in
\* order: values stay under their headers, and a setup that is alone repairs what
\* the others left and is not refused because of it.
SetupSound == SetupTyped /\ RowsAligned /\ SetupConverges /\ SetupGoesThrough
=============================================================================
