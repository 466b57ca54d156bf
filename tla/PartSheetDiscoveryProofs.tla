----------------------- MODULE PartSheetDiscoveryProofs -----------------------
(***************************************************************************)
(* Installed handlers know both part sheets entirely, and every value that    *)
(* is saved or given back stays with its node: for any programs of the        *)
(* machine, however their objects are cut into pages and whatever changes     *)
(* between sessions.                                                         *)
(*                                                                         *)
(* DiscoveryInv says what each await may rely on: what has been browsed and   *)
(* what remains make up the object (BrowseInv), the sheets already read are   *)
(* those of the present program (KnownInv), the sheets of a save agree with   *)
(* them item by item (SaveInv), and a cached value comes from the node of its *)
(* identifier in the common namespace, whatever the program was (CacheInv).   *)
(***************************************************************************)
EXTENDS PartSheetDiscovery, SequenceTheorems, TLAPS

MachineInv ==
    /\ program \in Programs
    /\ contents \in [NodesOf(program) -> Variants]
    /\ \A node \in NodesOf(program) : contents[node] \in TypeOf(program, node)

\* The nodes of a sheet, as a context holds them.
NodeList == Seq([id : Nat, name : STRING])

ContextType == [ns_index : [Sheets -> Nat], nodes : [Sheets -> NodeList], part_id_index : Nat]

SessionType ==
    /\ pc \in {"none", "index", "browse", "read", "ready", "save_job"}
    /\ sheet \in Sheets
    /\ pc = "none" => sheet = "General"
    /\ remaining \in Seq(Reference)
    /\ browsed \in Seq(Reference)
    /\ context \in ContextType

\* What has been browsed and what remains make up the object.
BrowseInv ==
    pc \in {"index", "browse", "read"} =>
        /\ browsed \o remaining = program.refs[sheet]
        /\ \A i \in 1 .. Len(browsed) : browsed[i].name # NullName
        /\ pc # "index" => context.ns_index[sheet] = program.index[Namespace[sheet]]
        /\ pc = "read" => remaining = <<>>

\* A sheet that has been browsed and read is that of the program of the machine.
Known(s) ==
    /\ context.nodes[s] = Discovered(program.refs[s])
    /\ context.ns_index[s] = program.index[Namespace[s]]
    /\ \A ref \in Range(program.refs[s]) :
        /\ ref.node[2] # NonNumeric
        /\ ref.name # NullName
        /\ KeepsTypes(program) => \A v \in TypeOf(program, ref.node) : Serializable(v)

PositionKnown ==
    /\ context.part_id_index \in 1 .. Len(context.nodes["General"])
    /\ context.nodes["General"][context.part_id_index].id = PartIdNid

\* The general part sheet is known before the operation part sheet is looked for.
KnownInv ==
    /\ sheet = "Operation" => Known("General") /\ PositionKnown
    /\ Ready => sheet = "Operation" /\ Known("Operation")

\* The items of a sheet agree with the references of its object, one by one.
Agrees(items, s) ==
    /\ DOMAIN items = 1 .. Len(program.refs[s])
    /\ Len(items) = Len(program.refs[s])
    /\ \A i \in 1 .. Len(program.refs[s]) :
        /\ items[i].id = program.refs[s][i].node[2]
        /\ items[i].name = program.refs[s][i].name
        /\ items[i].from \in NodesOf(program)
        /\ items[i].from = <<Namespace[s], items[i].id>>
        /\ items[i].value \in TypeOf(program, items[i].from)

SaveInv ==
    pc = "save_job" =>
        /\ Agrees(part_sheets.general, "General")
        /\ Agrees(part_sheets.operation, "Operation")
        /\ \E i \in 1 .. Len(program.refs["General"]) :
            /\ part_sheets.general[i].id = PartIdNid
            /\ part_sheets.general[i].value.text = part_sheets.part

\* A cached value comes from the node of its identifier in the common namespace.
CacheInv ==
    \A part \in DOMAIN cache : \A x \in cache[part] : x.from = <<"Common", x.id>>

DiscoveryInv ==
    /\ MachineInv
    /\ SessionType
    /\ BrowseInv
    /\ KnownInv
    /\ SaveInv
    /\ CacheInv
    /\ LoadedWhereSaved

-----------------------------------------------------------------------------
(* Lemmas *)

\* The parts of a program.
LEMMA ProgramParts ==
    ASSUME NEW p \in Programs
    PROVE  /\ \A s \in Sheets : p.refs[s] \in Seq(Reference)
           /\ \A s \in Sheets : \A ref \in Range(p.refs[s]) : ref \in References(p)
           /\ References(p) \subseteq Reference
           /\ \A ref \in References(p) : ref.type # {}
           /\ \A ns \in {"Common", "Machine"} : p.index[ns] \in Nat
           /\ \A s \in Sheets : Namespace[s] \in {"Common", "Machine"}
  <1>1. \A s \in Sheets : p.refs[s] \in Seq(Reference) /\ \A ref \in Range(p.refs[s]) : ref.type # {}
    BY DiscoveryAssumption
  <1>2. \A s \in Sheets : Range(p.refs[s]) \subseteq Reference
    BY <1>1 DEF Range
  <1>3. \A s \in Sheets : Range(p.refs[s]) \subseteq References(p)
    BY DEF Sheets, References
  <1>4. References(p) = Range(p.refs["General"]) \cup Range(p.refs["Operation"])
    BY DEF References
  <1>5. \A ns \in {"Common", "Machine"} : p.index[ns] \in Nat
    BY DiscoveryAssumption
  <1>6. \A s \in Sheets : Namespace[s] \in {"Common", "Machine"}
    BY DEF Namespace, Sheets
  <1> QED
    BY <1>1, <1>2, <1>3, <1>4, <1>5, <1>6 DEF Sheets

\* The values a node may take are values, and there is one.
LEMMA NodeTypes ==
    ASSUME NEW p \in Programs, NEW node \in NodesOf(p)
    PROVE  TypeOf(p, node) # {} /\ TypeOf(p, node) \subseteq Variants
  <1>1. PICK r \in References(p) : r.node = node
    BY DEF NodesOf
  <1>2. (CHOOSE ref \in References(p) : ref.node = node) \in References(p)
    BY <1>1
  <1>3. (CHOOSE ref \in References(p) : ref.node = node) \in Reference
    BY <1>2, ProgramParts
  <1>4. (CHOOSE ref \in References(p) : ref.node = node).type # {}
    BY <1>2, ProgramParts
  <1> QED
    BY <1>3, <1>4 DEF TypeOf, Reference

\* A program starts with values that its variables may take.
LEMMA InitialContents ==
    ASSUME NEW p \in Programs
    PROVE  /\ Initially(p) \in [NodesOf(p) -> Variants]
           /\ \A node \in NodesOf(p) : Initially(p)[node] \in TypeOf(p, node)
  <1>1. ASSUME NEW node \in NodesOf(p)
        PROVE  /\ (CHOOSE v \in TypeOf(p, node) : TRUE) \in TypeOf(p, node)
               /\ (CHOOSE v \in TypeOf(p, node) : TRUE) \in Variants
    BY NodeTypes
  <1> QED
    BY <1>1 DEF Initially

\* What is discovered is as long as what was browsed.
LEMMA DiscoveredNodes ==
    ASSUME NEW refs \in Seq(Reference)
    PROVE  /\ Discovered(refs) \in NodeList
           /\ Len(Discovered(refs)) = Len(refs)
           /\ DOMAIN Discovered(refs) = 1 .. Len(refs)
           /\ \A i \in 1 .. Len(refs) : /\ Discovered(refs)[i].id = refs[i].node[2]
                                        /\ Discovered(refs)[i].name = refs[i].name
  <1>1. \A i \in 1 .. Len(refs) : refs[i] \in Reference
    OBVIOUS
  <1>2. \A i \in 1 .. Len(refs) : refs[i].node[2] \in Nat /\ refs[i].name \in STRING
    BY <1>1 DEF Reference
  <1>3. DOMAIN refs = 1 .. Len(refs) /\ Len(refs) \in Nat
    OBVIOUS
  <1>4. Discovered(refs) \in [1 .. Len(refs) -> [id : Nat, name : STRING]]
    BY <1>2, <1>3 DEF Discovered
  <1> QED
    BY <1>3, <1>4 DEF Discovered, NodeList

\* An index and an identifier designate one node at most.
LEMMA DesignatedOne ==
    ASSUME program \in Programs, NEW ns \in {"Common", "Machine"}, NEW id,
           NEW node \in Designated(program.index[ns], id)
    PROVE  node = <<ns, id>> /\ node \in NodesOf(program)
  <1>1. node \in NodesOf(program) /\ program.index[node[1]] = program.index[ns] /\ node[2] = id
    BY DEF Designated
  <1>2. PICK r \in References(program) : r.node = node
    BY <1>1 DEF NodesOf
  <1>3. node \in {"Common", "Machine"} \X Nat
    BY <1>2, ProgramParts DEF Reference
  <1>4. program.index["Common"] # program.index["Machine"]
    BY DiscoveryAssumption
  <1>5. node[1] = ns
    BY <1>1, <1>3, <1>4
  <1> QED
    BY <1>1, <1>3, <1>5

\* A page and what follows it make up what remained.
LEMMA PageSplit ==
    ASSUME NEW refs \in Seq(Reference), NEW n \in 1 .. Len(refs)
    PROVE  SubSeq(refs, 1, n) \o SubSeq(refs, n + 1, Len(refs)) = refs
  <1> DEFINE page == SubSeq(refs, 1, n)
             rest == SubSeq(refs, n + 1, Len(refs))
  <1>1. /\ page \in Seq(Reference) /\ rest \in Seq(Reference)
        /\ Len(page) = n /\ Len(rest) = Len(refs) - n
    OBVIOUS
  <1>2. \A i \in 1 .. n : page[i] = refs[i]
    OBVIOUS
  <1>3. \A i \in 1 .. (Len(refs) - n) : rest[i] = refs[i + n]
    OBVIOUS
  <1> HIDE DEF page, rest
  <1>4. page \o rest \in Seq(Reference) /\ Len(page \o rest) = Len(refs)
    BY <1>1
  <1>5. ASSUME NEW i \in 1 .. Len(refs) PROVE (page \o rest)[i] = refs[i]
    <2>1. CASE i <= n
      BY <2>1, <1>1, <1>2
    <2>2. CASE i > n
      <3>1. i - n \in 1 .. (Len(refs) - n) /\ (page \o rest)[i] = rest[i - n]
        BY <2>2, <1>1
      <3> QED
        BY <3>1, <1>3
    <2>3. i <= n \/ i > n
      OBVIOUS
    <2> QED
      BY <2>1, <2>2, <2>3
  <1>6. page \o rest = refs
    BY <1>4, <1>5, SeqEqual
  <1> QED
    BY <1>6 DEF page, rest

\* The session is torn down to what it was before it started.
LEMMA SessionEndsInv == DiscoveryInv /\ SessionEnds => DiscoveryInv'
  <1> SUFFICES ASSUME DiscoveryInv, SessionEnds PROVE DiscoveryInv'
    OBVIOUS
  <1>1. MachineInv' /\ CacheInv' /\ LoadedWhereSaved'
    BY DEF DiscoveryInv, MachineInv, CacheInv, LoadedWhereSaved, SessionEnds, handlerFrame,
           machineVars
  <1>2. NoContext \in ContextType
    BY DEF NoContext, ContextType, NodeList
  <1>3. SessionType'
    BY <1>2 DEF SessionEnds, SessionType, Sheets
  <1>4. BrowseInv' /\ KnownInv' /\ SaveInv'
    BY DEF SessionEnds, BrowseInv, KnownInv, SaveInv, Ready
  <1> QED
    BY <1>1, <1>3, <1>4 DEF DiscoveryInv

\* What is known of a sheet stays, as long as the program and the context do.
LEMMA KnownStays ==
    ASSUME UNCHANGED <<program, context>>, NEW s \in Sheets
    PROVE  (Known(s) => Known(s)') /\ (PositionKnown => PositionKnown')
  BY DEF Known, PositionKnown, TypeOf, References, KeepsTypes

\* A browse starts with the whole object before it.
LEMMA BrowsingInv ==
    ASSUME DiscoveryInv, UNCHANGED machineVars, NEW s \in Sheets, Browsing(s)
    PROVE  BrowseInv' /\ remaining' \in Seq(Reference) /\ browsed' \in Seq(Reference)
  <1>1. program \in Programs /\ program' = program
    BY DEF DiscoveryInv, MachineInv, machineVars
  <1>2. program.refs[s] \in Seq(Reference)
    BY <1>1, ProgramParts
  <1>3. pc' = "index" /\ sheet' = s /\ remaining' = program.refs[s] /\ browsed' = <<>>
    BY DEF Browsing
  <1>4. <<>> \o program.refs[s] = program.refs[s]
    BY <1>2
  <1>5. Len(browsed') = 0
    BY <1>3
  <1> QED
    BY <1>1, <1>2, <1>3, <1>4, <1>5 DEF BrowseInv

\* The start of a session.
LEMMA InitializeInv == DiscoveryInv /\ initialize => DiscoveryInv'
  <1> SUFFICES ASSUME DiscoveryInv, initialize PROVE DiscoveryInv'
    OBVIOUS
  <1>1. UNCHANGED machineVars /\ Browsing("General") /\ "General" \in Sheets
    BY DEF initialize, handlerFrame, machineVars, Sheets
  <1>2. BrowseInv' /\ remaining' \in Seq(Reference) /\ browsed' \in Seq(Reference)
    BY <1>1, BrowsingInv
  <1>3. MachineInv' /\ CacheInv' /\ LoadedWhereSaved'
    BY DEF DiscoveryInv, MachineInv, CacheInv, LoadedWhereSaved, initialize, handlerFrame,
           machineVars
  <1>4. SessionType'
    BY <1>1, <1>2 DEF DiscoveryInv, SessionType, initialize, Browsing
  <1>5. KnownInv' /\ SaveInv'
    BY DEF initialize, Browsing, KnownInv, SaveInv, Ready
  <1> QED
    BY <1>2, <1>3, <1>4, <1>5 DEF DiscoveryInv

\* The namespace index of the sheet being looked for; the other one stays.
LEMMA NamespaceInv == DiscoveryInv /\ get_namespace_index => DiscoveryInv'
  <1> SUFFICES ASSUME DiscoveryInv, get_namespace_index PROVE DiscoveryInv'
    OBVIOUS
  <1> USE DEF DiscoveryInv
  <1>1. /\ pc = "index" /\ pc' = "browse" /\ UNCHANGED <<program, contents, cache, written>>
        /\ UNCHANGED <<sheet, remaining, browsed>>
        /\ context' = [context EXCEPT !.ns_index[sheet] = program.index[Namespace[sheet]]]
    BY DEF get_namespace_index, handlerFrame, machineVars
  <1>2. MachineInv' /\ CacheInv' /\ LoadedWhereSaved'
    BY <1>1 DEF MachineInv, CacheInv, LoadedWhereSaved
  <1>3. program \in Programs /\ sheet \in Sheets
    BY DEF MachineInv, SessionType
  <1>4. program.index[Namespace[sheet]] \in Nat
    BY <1>3, ProgramParts
  <1>5. /\ context'.nodes = context.nodes
        /\ context'.part_id_index = context.part_id_index
        /\ context'.ns_index = [context.ns_index EXCEPT ![sheet] = program.index[Namespace[sheet]]]
        /\ context.ns_index \in [Sheets -> Nat]
    BY <1>1 DEF SessionType, ContextType
  <1>6. SessionType'
    BY <1>1, <1>3, <1>4, <1>5 DEF SessionType, ContextType
  <1>7. BrowseInv'
    BY <1>1, <1>3, <1>5 DEF BrowseInv
  <1>8. sheet = "Operation" => Known("General")' /\ PositionKnown'
    <2>1. SUFFICES ASSUME sheet = "Operation" PROVE Known("General")' /\ PositionKnown'
      OBVIOUS
    <2>2. Known("General") /\ PositionKnown
      BY <2>1 DEF KnownInv
    <2>3. context'.ns_index["General"] = context.ns_index["General"]
      BY <2>1, <1>5 DEF Sheets
    <2> QED
      BY <2>2, <2>3, <1>1, <1>5 DEF Known, PositionKnown, TypeOf, References, KeepsTypes
  <1>9. KnownInv' /\ SaveInv'
    BY <1>1, <1>8 DEF KnownInv, SaveInv, Ready
  <1> QED
    BY <1>2, <1>6, <1>7, <1>9

\* A page moves references from what remains to what has been browsed.
LEMMA BrowsePageInv == DiscoveryInv /\ BrowsePage => DiscoveryInv'
  <1> SUFFICES ASSUME DiscoveryInv, BrowsePage PROVE DiscoveryInv'
    OBVIOUS
  <1> USE DEF DiscoveryInv
  <1>1. PICK n \in 1 .. Len(remaining) :
          /\ \A i \in 1 .. n : remaining[i].name # NullName
          /\ browsed' = browsed \o SubSeq(remaining, 1, n)
          /\ remaining' = SubSeq(remaining, n + 1, Len(remaining))
    BY DEF BrowsePage
  <1>2. /\ pc = "browse" /\ UNCHANGED <<program, contents, cache, written>>
        /\ UNCHANGED <<pc, sheet, context, part_sheets>>
    BY DEF BrowsePage, handlerFrame, machineVars
  <1>3. MachineInv' /\ CacheInv' /\ LoadedWhereSaved'
    BY <1>2 DEF MachineInv, CacheInv, LoadedWhereSaved
  <1>4. remaining \in Seq(Reference) /\ browsed \in Seq(Reference) /\ n \in 1 .. Len(remaining)
    BY <1>1 DEF SessionType
  <1>5. SubSeq(remaining, 1, n) \in Seq(Reference) /\ SubSeq(remaining, n + 1, Len(remaining)) \in Seq(Reference)
    BY <1>4
  <1>6. SessionType'
    BY <1>1, <1>2, <1>4, <1>5 DEF SessionType
  <1>7. SubSeq(remaining, 1, n) \o SubSeq(remaining, n + 1, Len(remaining)) = remaining
    BY <1>4, PageSplit
  <1>8. browsed' \o remaining' = browsed \o remaining
    <2> DEFINE page == SubSeq(remaining, 1, n)
               rest == SubSeq(remaining, n + 1, Len(remaining))
    <2>1. page \in Seq(Reference) /\ rest \in Seq(Reference) /\ browsed \in Seq(Reference)
      BY <1>4, <1>5
    <2> HIDE DEF page, rest
    <2>2. (browsed \o page) \o rest = browsed \o (page \o rest)
      BY <2>1, ConcatAssociative
    <2> QED
      BY <2>2, <1>1, <1>7 DEF page, rest
  <1>9. \A i \in 1 .. Len(browsed') : browsed'[i].name # NullName
    <2>1. ASSUME NEW i \in 1 .. Len(browsed') PROVE browsed'[i].name # NullName
      <3>1. Len(browsed') = Len(browsed) + n
        BY <1>1, <1>4, <1>5
      <3>2. CASE i <= Len(browsed)
        BY <3>1, <3>2, <1>1, <1>2, <1>4, <1>5 DEF BrowseInv
      <3>3. CASE i > Len(browsed)
        <4>1. i - Len(browsed) \in 1 .. n
          BY <3>1, <3>3, <1>4
        <4>2. browsed'[i] = remaining[i - Len(browsed)]
          BY <4>1, <3>1, <3>3, <1>1, <1>4, <1>5
        <4> QED
          BY <4>1, <4>2, <1>1
      <3> QED
        BY <3>1, <3>2, <3>3, <1>4
    <2> QED
      BY <2>1
  <1>10. BrowseInv'
    BY <1>2, <1>8, <1>9 DEF BrowseInv
  <1>11. "General" \in Sheets /\ "Operation" \in Sheets
    BY DEF Sheets
  <1>12. KnownInv' /\ SaveInv'
    BY <1>2, <1>11, KnownStays DEF KnownInv, SaveInv, Ready
  <1> QED
    BY <1>3, <1>6, <1>10, <1>12

\* The last page has come.
LEMMA BrowseDoneInv == DiscoveryInv /\ BrowseDone => DiscoveryInv'
  <1> SUFFICES ASSUME DiscoveryInv, BrowseDone PROVE DiscoveryInv'
    OBVIOUS
  <1> USE DEF DiscoveryInv
  <1>1. /\ pc = "browse" /\ pc' = "read" /\ remaining = <<>>
        /\ UNCHANGED <<program, contents, cache, written>>
        /\ UNCHANGED <<sheet, remaining, browsed, context, part_sheets>>
    BY DEF BrowseDone, handlerFrame, machineVars
  <1>2. MachineInv' /\ CacheInv' /\ LoadedWhereSaved' /\ SessionType'
    BY <1>1 DEF MachineInv, CacheInv, LoadedWhereSaved, SessionType
  <1>3. BrowseInv'
    BY <1>1 DEF BrowseInv
  <1>4. "General" \in Sheets /\ "Operation" \in Sheets
    BY DEF Sheets
  <1>5. KnownInv' /\ SaveInv'
    BY <1>1, <1>4, KnownStays DEF KnownInv, SaveInv, Ready
  <1> QED
    BY <1>2, <1>3, <1>5

\* A browse that is over has found the object, which is checked as a whole.
LEMMA ReadKnown ==
    ASSUME DiscoveryInv, pc = "read", Readable(browsed)
    PROVE  /\ browsed = program.refs[sheet]
           /\ context.ns_index[sheet] = program.index[Namespace[sheet]]
           /\ \A ref \in Range(program.refs[sheet]) :
                /\ ref.node[2] # NonNumeric
                /\ ref.name # NullName
                /\ KeepsTypes(program) => \A v \in TypeOf(program, ref.node) : Serializable(v)
  <1> USE DEF DiscoveryInv
  <1>1. /\ browsed \o remaining = program.refs[sheet] /\ remaining = <<>>
        /\ context.ns_index[sheet] = program.index[Namespace[sheet]]
        /\ \A i \in 1 .. Len(browsed) : browsed[i].name # NullName
    BY DEF BrowseInv
  <1>2. browsed \in Seq(Reference) /\ program \in Programs /\ sheet \in Sheets
    BY DEF SessionType, MachineInv
  <1>3. browsed = program.refs[sheet]
    BY <1>1, <1>2, ConcatEmptySeq
  <1>4. ASSUME NEW ref \in Range(program.refs[sheet])
        PROVE  /\ ref.node[2] # NonNumeric
               /\ ref.name # NullName
               /\ KeepsTypes(program) => \A v \in TypeOf(program, ref.node) : Serializable(v)
    <2>1. PICK i \in 1 .. Len(browsed) : browsed[i] = ref
      BY <1>2, <1>3 DEF Range
    <2>2. ref.node[2] # NonNumeric /\ ref.name # NullName /\ Serializable(contents[ref.node])
      BY <2>1, <1>1, <1>2 DEF Readable
    <2>3. ref \in References(program)
      BY <1>2, ProgramParts
    <2>4. ref.node \in NodesOf(program)
      BY <2>3 DEF NodesOf
    <2>5. contents[ref.node] \in TypeOf(program, ref.node)
      BY <2>4 DEF MachineInv
    <2>6. PICK r \in References(program) : TypeOf(program, ref.node) = r.type
      <3>1. (CHOOSE r \in References(program) : r.node = ref.node) \in References(program)
        BY <2>3
      <3> QED
        BY <3>1 DEF TypeOf
    <2>7. ASSUME KeepsTypes(program), NEW v \in TypeOf(program, ref.node) PROVE Serializable(v)
      BY <2>2, <2>5, <2>6, <2>7 DEF KeepsTypes
    <2> QED
      BY <2>2, <2>7
  <1> QED
    BY <1>1, <1>3, <1>4

\* The general part sheet is known, and the part identifier in it.
LEMMA ReadGeneralInv == DiscoveryInv /\ ReadGeneral => DiscoveryInv'
  <1> SUFFICES ASSUME DiscoveryInv, ReadGeneral PROVE DiscoveryInv'
    OBVIOUS
  <1>1. PICK i \in Position(Discovered(browsed)) :
          context' = [context EXCEPT !.nodes["General"] = Discovered(browsed), !.part_id_index = i]
    BY DEF ReadGeneral
  <1>2. /\ pc = "read" /\ sheet = "General" /\ Readable(browsed) /\ Browsing("Operation")
        /\ UNCHANGED machineVars /\ UNCHANGED <<program, contents, cache, written, part_sheets>>
    BY DEF ReadGeneral, handlerFrame, machineVars
  <1>3. "General" \in Sheets /\ "Operation" \in Sheets
    BY DEF Sheets
  <1>4. BrowseInv' /\ remaining' \in Seq(Reference) /\ browsed' \in Seq(Reference)
    BY <1>2, <1>3, BrowsingInv
  <1>5. MachineInv' /\ CacheInv' /\ LoadedWhereSaved'
    BY <1>2 DEF DiscoveryInv, MachineInv, CacheInv, LoadedWhereSaved
  <1>6. browsed \in Seq(Reference)
    BY DEF DiscoveryInv, SessionType
  <1>7. /\ Discovered(browsed) \in NodeList
        /\ DOMAIN Discovered(browsed) = 1 .. Len(Discovered(browsed))
        /\ Len(Discovered(browsed)) \in Nat
    BY <1>6, DiscoveredNodes
  <1>8. i \in 1 .. Len(Discovered(browsed)) /\ Discovered(browsed)[i].id = PartIdNid
    BY <1>1, <1>7 DEF Position
  <1>9. /\ context'.ns_index = context.ns_index
        /\ context'.part_id_index = i
        /\ context'.nodes = [context.nodes EXCEPT !["General"] = Discovered(browsed)]
        /\ context.nodes \in [Sheets -> NodeList]
    BY <1>1 DEF DiscoveryInv, SessionType, ContextType
  <1>10. SessionType'
    <2>1. context \in ContextType
      BY DEF DiscoveryInv, SessionType
    <2>2. i \in Nat
      BY <1>7, <1>8
    <2> DEFINE nodes == [context.nodes EXCEPT !["General"] = Discovered(browsed)]
    <2>3. nodes \in [Sheets -> NodeList]
      BY <1>3, <1>7, <1>9
    <2>4. context' = [ns_index |-> context.ns_index, nodes |-> nodes, part_id_index |-> i]
      BY <2>1, <1>1 DEF ContextType
    <2>5. context.ns_index \in [Sheets -> Nat]
      BY <2>1 DEF ContextType
    <2> HIDE DEF nodes
    <2>6. context' \in ContextType
      BY <2>2, <2>3, <2>4, <2>5 DEF ContextType
    <2> QED
      BY <2>6, <1>2, <1>3, <1>4 DEF SessionType, Browsing
  <1>11. context'.nodes["General"] = Discovered(browsed)
    BY <1>3, <1>9
  <1>12. Known("General")' /\ PositionKnown'
    <2>1. /\ browsed = program.refs["General"]
          /\ context.ns_index["General"] = program.index[Namespace["General"]]
          /\ \A ref \in Range(program.refs["General"]) :
               /\ ref.node[2] # NonNumeric
               /\ ref.name # NullName
               /\ KeepsTypes(program) => \A v \in TypeOf(program, ref.node) : Serializable(v)
      BY <1>2, ReadKnown
    <2>2. program' = program
      BY <1>2
    <2> QED
      BY <2>1, <2>2, <1>8, <1>9, <1>11 DEF Known, PositionKnown, TypeOf, References, KeepsTypes
  <1>13. KnownInv' /\ SaveInv'
    BY <1>2, <1>12 DEF Browsing, KnownInv, SaveInv, Ready
  <1> QED
    BY <1>4, <1>5, <1>10, <1>13 DEF DiscoveryInv

\* Both sheets are known: the handler is installed.
LEMMA ReadOperationInv == DiscoveryInv /\ ReadOperation => DiscoveryInv'
  <1> SUFFICES ASSUME DiscoveryInv, ReadOperation PROVE DiscoveryInv'
    OBVIOUS
  <1>1. /\ pc = "read" /\ sheet = "Operation" /\ Readable(browsed) /\ pc' = "ready"
        /\ UNCHANGED <<program, contents, cache, written, part_sheets, sheet, remaining>>
        /\ browsed' = <<>>
        /\ context' = [context EXCEPT !.nodes["Operation"] = Discovered(browsed)]
    BY DEF ReadOperation, handlerFrame, machineVars
  <1>2. MachineInv' /\ CacheInv' /\ LoadedWhereSaved'
    BY <1>1 DEF DiscoveryInv, MachineInv, CacheInv, LoadedWhereSaved
  <1>3. browsed \in Seq(Reference)
    BY DEF DiscoveryInv, SessionType
  <1>4. Discovered(browsed) \in NodeList
    BY <1>3, DiscoveredNodes
  <1>5. "General" \in Sheets /\ "Operation" \in Sheets
    BY DEF Sheets
  <1>6. SessionType'
    <2>1. context' \in ContextType
      BY <1>1, <1>4, <1>5 DEF DiscoveryInv, SessionType, ContextType
    <2> QED
      BY <2>1, <1>1, <1>5 DEF DiscoveryInv, SessionType
  <1>7. /\ context'.ns_index = context.ns_index
        /\ context'.part_id_index = context.part_id_index
        /\ context'.nodes["Operation"] = Discovered(browsed)
        /\ context'.nodes["General"] = context.nodes["General"]
    BY <1>1, <1>5 DEF DiscoveryInv, SessionType, ContextType
  <1>8. Known("General")' /\ PositionKnown'
    <2>1. Known("General") /\ PositionKnown
      BY <1>1 DEF DiscoveryInv, KnownInv
    <2> QED
      BY <2>1, <1>1, <1>7 DEF Known, PositionKnown, TypeOf, References, KeepsTypes
  <1>9. Known("Operation")'
    <2>1. /\ browsed = program.refs["Operation"]
          /\ context.ns_index["Operation"] = program.index[Namespace["Operation"]]
          /\ \A ref \in Range(program.refs["Operation"]) :
               /\ ref.node[2] # NonNumeric
               /\ ref.name # NullName
               /\ KeepsTypes(program) => \A v \in TypeOf(program, ref.node) : Serializable(v)
      BY <1>1, ReadKnown
    <2>2. program' = program
      BY <1>1
    <2> QED
      BY <2>1, <2>2, <1>7 DEF Known, TypeOf, References, KeepsTypes
  <1>10. BrowseInv' /\ KnownInv' /\ SaveInv'
    BY <1>1, <1>8, <1>9 DEF BrowseInv, KnownInv, SaveInv, Ready
  <1> QED
    BY <1>2, <1>6, <1>10 DEF DiscoveryInv

\* Another program, no session: nothing of the old one is relied upon.
LEMMA ReprogramInv ==
    ASSUME DiscoveryInv, NEW p \in Programs, Reprogram(p)
    PROVE  DiscoveryInv'
  <1>1. /\ pc = "none" /\ program' = p /\ contents' = Initially(p) /\ written' = {}
        /\ UNCHANGED <<pc, sheet, remaining, browsed, context, part_sheets, cache>>
    BY DEF Reprogram, sessionVars
  <1>2. MachineInv'
    BY <1>1, InitialContents DEF MachineInv
  <1>3. SessionType' /\ CacheInv' /\ LoadedWhereSaved'
    BY <1>1 DEF DiscoveryInv, SessionType, CacheInv, LoadedWhereSaved
  <1>4. BrowseInv' /\ SaveInv'
    BY <1>1 DEF BrowseInv, SaveInv
  <1>5. KnownInv'
    BY <1>1 DEF KnownInv, Ready, DiscoveryInv, SessionType
  <1> QED
    BY <1>2, <1>3, <1>4, <1>5 DEF DiscoveryInv

\* The machine changes a value, of the type of its node: nothing else.
LEMMA SetValueInv ==
    ASSUME DiscoveryInv, NEW node \in NodesOf(program), SetValue(node)
    PROVE  DiscoveryInv'
  <1>1. PICK v \in TypeOf(program, node) : contents' = [contents EXCEPT ![node] = v]
    BY DEF SetValue
  <1>2. /\ UNCHANGED <<program, cache, written>>
        /\ UNCHANGED <<pc, sheet, remaining, browsed, context, part_sheets>>
    BY DEF SetValue, sessionVars
  <1>3. MachineInv'
    <2>1. program \in Programs /\ contents \in [NodesOf(program) -> Variants]
      BY DEF DiscoveryInv, MachineInv
    <2>2. v \in Variants
      BY <2>1, NodeTypes
    <2>3. contents' \in [NodesOf(program) -> Variants]
      BY <2>1, <2>2, <1>1
    <2>4. \A n \in NodesOf(program) : contents'[n] \in TypeOf(program, n)
      BY <2>1, <1>1 DEF DiscoveryInv, MachineInv
    <2> QED
      BY <2>1, <2>3, <2>4, <1>2 DEF MachineInv
  <1>4. SessionType' /\ BrowseInv' /\ CacheInv' /\ LoadedWhereSaved'
    BY <1>2 DEF DiscoveryInv, SessionType, BrowseInv, CacheInv, LoadedWhereSaved
  <1>5. KnownInv'
    <2>1. "General" \in Sheets /\ "Operation" \in Sheets
      BY DEF Sheets
    <2> QED
      BY <2>1, <1>2, KnownStays DEF DiscoveryInv, KnownInv, Ready
  <1>6. SaveInv'
    BY <1>2 DEF DiscoveryInv, SaveInv, Agrees, TypeOf, NodesOf, References
  <1> QED
    BY <1>3, <1>4, <1>5, <1>6 DEF DiscoveryInv

\* The items of one sheet in the answer of a save: those between two positions.
LEMMA ItemsAgree ==
    ASSUME NEW s \in Sheets, DiscoveryInv, Known(s),
           NEW items, NEW first \in Nat,
           \A i \in 1 .. Len(program.refs[s]) :
             /\ items[first + i].id = context.nodes[s][i].id
             /\ items[first + i].name = context.nodes[s][i].name
             /\ items[first + i].from \in Designated(context.ns_index[s], context.nodes[s][i].id)
             /\ items[first + i].value = contents[items[first + i].from]
    PROVE  Agrees([i \in 1 .. Len(program.refs[s]) |-> items[first + i]], s)
  <1>1. program \in Programs /\ program.refs[s] \in Seq(Reference)
    BY ProgramParts DEF DiscoveryInv, MachineInv
  <1>2. Namespace[s] \in {"Common", "Machine"}
    BY <1>1, ProgramParts
  <1> DEFINE part == [i \in 1 .. Len(program.refs[s]) |-> items[first + i]]
  <1>3. ASSUME NEW i \in 1 .. Len(program.refs[s])
        PROVE  /\ part[i].id = program.refs[s][i].node[2]
               /\ part[i].name = program.refs[s][i].name
               /\ part[i].from \in NodesOf(program)
               /\ part[i].from = <<Namespace[s], part[i].id>>
               /\ part[i].value \in TypeOf(program, part[i].from)
    <2>1. part[i] = items[first + i]
      OBVIOUS
    <2> HIDE DEF part
    <2>2. /\ context.nodes[s][i].id = program.refs[s][i].node[2]
          /\ context.nodes[s][i].name = program.refs[s][i].name
      BY <1>1, DiscoveredNodes DEF Known
    <2>3. part[i].from \in Designated(program.index[Namespace[s]], part[i].id)
      BY <2>1 DEF Known
    <2>4. part[i].from = <<Namespace[s], part[i].id>> /\ part[i].from \in NodesOf(program)
      BY <2>3, <1>1, <1>2, DesignatedOne
    <2>5. part[i].value \in TypeOf(program, part[i].from)
      BY <2>1, <2>4 DEF DiscoveryInv, MachineInv
    <2> QED
      BY <2>1, <2>2, <2>4, <2>5
  <1>4. Len(part) = Len(program.refs[s]) /\ DOMAIN part = 1 .. Len(program.refs[s])
    BY <1>1
  <1> HIDE DEF part
  <1>5. Agrees(part, s)
    BY <1>3, <1>4 DEF Agrees
  <1> QED
    BY <1>5 DEF part

\* What one call asks for: the nodes of the general part sheet, then those of the other.
LEMMA CallParts ==
    ASSUME DiscoveryInv
    PROVE  LET gen == context.nodes["General"]
               op == context.nodes["Operation"]
           IN
           /\ Len(gen) \in Nat /\ Len(op) \in Nat
           /\ DOMAIN (gen \o op) = 1 .. (Len(gen) + Len(op))
           /\ DOMAIN ReadOrder = 1 .. (Len(gen) + Len(op))
           /\ \A i \in 1 .. Len(gen) :
                /\ (gen \o op)[i] = gen[i]
                /\ ReadOrder[i] = [ns_index |-> context.ns_index["General"], id |-> gen[i].id]
           /\ \A i \in 1 .. Len(op) :
                /\ (gen \o op)[Len(gen) + i] = op[i]
                /\ ReadOrder[Len(gen) + i]
                     = [ns_index |-> context.ns_index["Operation"], id |-> op[i].id]
  <1> DEFINE gen == context.nodes["General"]
             op == context.nodes["Operation"]
             Node == [id : Nat, name : STRING]
             Asking == [ns_index : Nat, id : Nat]
             a == Asked("General")
             b == Asked("Operation")
  <1>1. /\ gen \in Seq(Node) /\ op \in Seq(Node)
        /\ context.ns_index["General"] \in Nat /\ context.ns_index["Operation"] \in Nat
    <2>1. context \in ContextType /\ "General" \in Sheets /\ "Operation" \in Sheets
      BY DEF DiscoveryInv, SessionType, Sheets
    <2>2. context.nodes \in [Sheets -> Seq(Node)] /\ context.ns_index \in [Sheets -> Nat]
      BY <2>1 DEF ContextType, NodeList
    <2> HIDE DEF Node
    <2> QED
      BY <2>1, <2>2
  <1>2. /\ DOMAIN gen = 1 .. Len(gen) /\ Len(gen) \in Nat
        /\ DOMAIN op = 1 .. Len(op) /\ Len(op) \in Nat
        /\ \A i \in 1 .. Len(gen) : gen[i].id \in Nat
        /\ \A i \in 1 .. Len(op) : op[i].id \in Nat
    <2> HIDE DEF Node, gen, op
    <2>1. /\ DOMAIN gen = 1 .. Len(gen) /\ Len(gen) \in Nat
          /\ DOMAIN op = 1 .. Len(op) /\ Len(op) \in Nat
          /\ \A i \in 1 .. Len(gen) : gen[i] \in Node
          /\ \A i \in 1 .. Len(op) : op[i] \in Node
      BY <1>1
    <2> QED
      BY <2>1 DEF Node
  <1>3. /\ a = [i \in 1 .. Len(gen) |->
                  [ns_index |-> context.ns_index["General"], id |-> gen[i].id]]
        /\ b = [i \in 1 .. Len(op) |->
                  [ns_index |-> context.ns_index["Operation"], id |-> op[i].id]]
    BY <1>2 DEF Asked
  <1>4. a \in [1 .. Len(gen) -> Asking] /\ b \in [1 .. Len(op) -> Asking]
    <2> HIDE DEF a, b, gen, op
    <2>1. \A i \in 1 .. Len(gen) :
            [ns_index |-> context.ns_index["General"], id |-> gen[i].id] \in Asking
      BY <1>1, <1>2
    <2>2. \A i \in 1 .. Len(op) :
            [ns_index |-> context.ns_index["Operation"], id |-> op[i].id] \in Asking
      BY <1>1, <1>2
    <2> HIDE DEF Asking
    <2> QED
      BY <1>3, <2>1, <2>2
  <1>5. ReadOrder = a \o b
    BY DEF ReadOrder
  <1> HIDE DEF Node, Asking, a, b, gen, op
  <1>6. a \in Seq(Asking) /\ b \in Seq(Asking) /\ Len(a) = Len(gen) /\ Len(b) = Len(op)
    <2>1. Len(gen) \in Nat /\ Len(op) \in Nat
      BY <1>2
    <2> QED
      BY <2>1, <1>4
  <1>7. /\ DOMAIN (a \o b) = 1 .. (Len(a) + Len(b))
        /\ \A i \in 1 .. Len(a) : (a \o b)[i] = a[i]
        /\ \A i \in 1 .. Len(b) : (a \o b)[Len(a) + i] = b[i]
    BY <1>6
  <1>8. /\ DOMAIN (gen \o op) = 1 .. (Len(gen) + Len(op))
        /\ \A i \in 1 .. Len(gen) : (gen \o op)[i] = gen[i]
        /\ \A i \in 1 .. Len(op) : (gen \o op)[Len(gen) + i] = op[i]
    BY <1>1
  <1>9. \A i \in 1 .. Len(gen) :
          ReadOrder[i] = [ns_index |-> context.ns_index["General"], id |-> gen[i].id]
    BY <1>3, <1>5, <1>6, <1>7
  <1>10. \A i \in 1 .. Len(op) :
           ReadOrder[Len(gen) + i]
             = [ns_index |-> context.ns_index["Operation"], id |-> op[i].id]
    BY <1>3, <1>5, <1>6, <1>7
  <1>11. DOMAIN ReadOrder = 1 .. (Len(gen) + Len(op))
    BY <1>5, <1>6, <1>7
  <1> QED
    BY <1>2, <1>8, <1>9, <1>10, <1>11 DEF gen, op

\* One call reads both sheets: its answer is cut at the boundary between them.
LEMMA SaveReadInv == DiscoveryInv /\ SaveRead => DiscoveryInv'
  <1> SUFFICES ASSUME DiscoveryInv, SaveRead PROVE DiscoveryInv'
    OBVIOUS
  <1> DEFINE gen == context.nodes["General"]
             op == context.nodes["Operation"]
             nodes == gen \o op
             Read(i) == CHOOSE node \in Designated(ReadOrder[i].ns_index, ReadOrder[i].id) : TRUE
             items == [i \in DOMAIN nodes |->
                         [id |-> nodes[i].id, name |-> nodes[i].name,
                          value |-> contents[Read(i)], from |-> Read(i)]]
  <1>1. /\ pc = "ready" /\ pc' = "save_job"
        /\ UNCHANGED <<program, contents, cache, written, sheet, remaining, browsed, context>>
        /\ \A i \in DOMAIN ReadOrder : Designated(ReadOrder[i].ns_index, ReadOrder[i].id) # {}
    BY DEF SaveRead, handlerFrame, machineVars
  <1>2. part_sheets' = [part |-> items[context.part_id_index].value.text,
                        general |-> SubSeq(items, 1, Len(gen)),
                        operation |-> SubSeq(items, Len(gen) + 1, Len(items))]
    BY DEF SaveRead
  <1>3. Known("General") /\ Known("Operation") /\ PositionKnown /\ sheet = "Operation"
    BY <1>1 DEF DiscoveryInv, KnownInv, Ready
  <1>4. "General" \in Sheets /\ "Operation" \in Sheets /\ program \in Programs
    BY DEF Sheets, DiscoveryInv, MachineInv
  <1>5. \A s \in Sheets : program.refs[s] \in Seq(Reference)
    BY <1>4, ProgramParts
  <1>6. /\ gen = Discovered(program.refs["General"]) /\ op = Discovered(program.refs["Operation"])
        /\ Len(gen) = Len(program.refs["General"]) /\ Len(op) = Len(program.refs["Operation"])
        /\ gen \in NodeList /\ op \in NodeList
    BY <1>3, <1>4, <1>5, DiscoveredNodes DEF Known
  <1>6a. Len(gen) = Len(program.refs["General"]) /\ Len(op) = Len(program.refs["Operation"])
    BY <1>6
  <1>7. /\ Len(gen) \in Nat /\ Len(op) \in Nat
        /\ DOMAIN nodes = 1 .. (Len(gen) + Len(op))
        /\ DOMAIN ReadOrder = 1 .. (Len(gen) + Len(op))
    BY CallParts
  <1>8. /\ \A i \in 1 .. Len(gen) :
             /\ nodes[i] = gen[i]
             /\ ReadOrder[i] = [ns_index |-> context.ns_index["General"], id |-> gen[i].id]
        /\ \A i \in 1 .. Len(op) :
             /\ nodes[Len(gen) + i] = op[i]
             /\ ReadOrder[Len(gen) + i]
                  = [ns_index |-> context.ns_index["Operation"], id |-> op[i].id]
    BY CallParts
  <1>9. \A i \in 1 .. (Len(gen) + Len(op)) :
          /\ items[i].id = nodes[i].id
          /\ items[i].name = nodes[i].name
          /\ items[i].from \in Designated(ReadOrder[i].ns_index, ReadOrder[i].id)
          /\ items[i].value = contents[items[i].from]
    BY <1>1, <1>7, <1>8
  <1>10. DOMAIN items = 1 .. (Len(gen) + Len(op)) /\ Len(items) = Len(gen) + Len(op)
    <2>1. DOMAIN items = DOMAIN nodes
      OBVIOUS
    <2> HIDE DEF items, nodes, gen, op
    <2>2. DOMAIN items = 1 .. (Len(gen) + Len(op)) /\ Len(gen) + Len(op) \in Nat
      BY <2>1, <1>7
    <2> QED
      BY <2>2
  <1> DEFINE general == [i \in 1 .. Len(gen) |-> items[0 + i]]
             operation == [i \in 1 .. Len(op) |-> items[Len(gen) + i]]
  <1> HIDE DEF items, nodes, gen, op
  <1>11. Agrees(general, "General")
    <2>1. \A i \in 1 .. Len(program.refs["General"]) :
             /\ items[0 + i].id = context.nodes["General"][i].id
             /\ items[0 + i].name = context.nodes["General"][i].name
             /\ items[0 + i].from
                  \in Designated(context.ns_index["General"], context.nodes["General"][i].id)
             /\ items[0 + i].value = contents[items[0 + i].from]
      <3>1. ASSUME NEW i \in 1 .. Len(program.refs["General"])
            PROVE  /\ 0 + i \in 1 .. (Len(gen) + Len(op))
                   /\ nodes[0 + i] = gen[i]
                   /\ ReadOrder[0 + i]
                        = [ns_index |-> context.ns_index["General"], id |-> gen[i].id]
        <4>1. i \in 1 .. Len(gen)
          BY <1>6a
        <4>2. 0 + i = i
          BY <1>7, <4>1
        <4>3. 0 + i \in 1 .. (Len(gen) + Len(op))
          BY <1>7, <4>1
        <4>4. nodes[0 + i] = gen[i]
          BY <1>8, <4>1, <4>2
        <4>5. ReadOrder[0 + i] = [ns_index |-> context.ns_index["General"], id |-> gen[i].id]
          BY <1>8, <4>1, <4>2
        <4> QED
          BY <4>3, <4>4, <4>5
      <3>2. ASSUME NEW i \in 1 .. Len(program.refs["General"])
            PROVE  /\ items[0 + i].id = gen[i].id
                   /\ items[0 + i].name = gen[i].name
                   /\ items[0 + i].from
                        \in Designated(context.ns_index["General"], gen[i].id)
                   /\ items[0 + i].value = contents[items[0 + i].from]
        <4>1. 0 + i \in 1 .. (Len(gen) + Len(op))
          BY <3>1
        <4>2. /\ items[0 + i].id = nodes[0 + i].id
              /\ items[0 + i].name = nodes[0 + i].name
              /\ items[0 + i].from
                   \in Designated(ReadOrder[0 + i].ns_index, ReadOrder[0 + i].id)
              /\ items[0 + i].value = contents[items[0 + i].from]
          BY <4>1, <1>9
        <4>3. nodes[0 + i] = gen[i]
          BY <3>1
        <4>4. ReadOrder[0 + i].ns_index = context.ns_index["General"] /\ ReadOrder[0 + i].id = gen[i].id
          <5>1. ReadOrder[0 + i] = [ns_index |-> context.ns_index["General"], id |-> gen[i].id]
            BY <3>1
          <5> QED
            BY <5>1
        <4> QED
          BY <4>2, <4>3, <4>4
      <3> QED
        BY <3>2 DEF gen
    <2> HIDE DEF general
    <2>2. Agrees([i \in 1 .. Len(program.refs["General"]) |-> items[0 + i]], "General")
      BY <2>1, <1>3, <1>4, ItemsAgree
    <2> QED
      BY <2>2, <1>6 DEF general
  <1>12. Agrees(operation, "Operation")
    <2>1. \A i \in 1 .. Len(program.refs["Operation"]) :
             /\ items[Len(gen) + i].id = context.nodes["Operation"][i].id
             /\ items[Len(gen) + i].name = context.nodes["Operation"][i].name
             /\ items[Len(gen) + i].from
                  \in Designated(context.ns_index["Operation"], context.nodes["Operation"][i].id)
             /\ items[Len(gen) + i].value = contents[items[Len(gen) + i].from]
      <3>1. ASSUME NEW i \in 1 .. Len(program.refs["Operation"])
            PROVE  /\ Len(gen) + i \in 1 .. (Len(gen) + Len(op))
                   /\ nodes[Len(gen) + i] = op[i]
                   /\ ReadOrder[Len(gen) + i]
                        = [ns_index |-> context.ns_index["Operation"], id |-> op[i].id]
        <4>1. i \in 1 .. Len(op)
          BY <1>6a
        <4>3. Len(gen) + i \in 1 .. (Len(gen) + Len(op))
          BY <1>7, <4>1
        <4>4. nodes[Len(gen) + i] = op[i]
          BY <1>8, <4>1
        <4>5. ReadOrder[Len(gen) + i]
                = [ns_index |-> context.ns_index["Operation"], id |-> op[i].id]
          BY <1>8, <4>1
        <4> QED
          BY <4>3, <4>4, <4>5
      <3>2. ASSUME NEW i \in 1 .. Len(program.refs["Operation"])
            PROVE  /\ items[Len(gen) + i].id = op[i].id
                   /\ items[Len(gen) + i].name = op[i].name
                   /\ items[Len(gen) + i].from
                        \in Designated(context.ns_index["Operation"], op[i].id)
                   /\ items[Len(gen) + i].value = contents[items[Len(gen) + i].from]
        <4>1. Len(gen) + i \in 1 .. (Len(gen) + Len(op))
          BY <3>1
        <4>2. /\ items[Len(gen) + i].id = nodes[Len(gen) + i].id
              /\ items[Len(gen) + i].name = nodes[Len(gen) + i].name
              /\ items[Len(gen) + i].from
                   \in Designated(ReadOrder[Len(gen) + i].ns_index, ReadOrder[Len(gen) + i].id)
              /\ items[Len(gen) + i].value = contents[items[Len(gen) + i].from]
          BY <4>1, <1>9
        <4>3. nodes[Len(gen) + i] = op[i]
          BY <3>1
        <4>4. ReadOrder[Len(gen) + i].ns_index = context.ns_index["Operation"] /\ ReadOrder[Len(gen) + i].id = op[i].id
          <5>1. ReadOrder[Len(gen) + i] = [ns_index |-> context.ns_index["Operation"], id |-> op[i].id]
            BY <3>1
          <5> QED
            BY <5>1
        <4> QED
          BY <4>2, <4>3, <4>4
      <3> QED
        BY <3>2 DEF op
    <2> HIDE DEF operation
    <2>2. Agrees([i \in 1 .. Len(program.refs["Operation"]) |-> items[Len(gen) + i]], "Operation")
      BY <2>1, <1>3, <1>4, <1>7, ItemsAgree
    <2> QED
      BY <2>2, <1>6 DEF operation
  <1>13. SubSeq(items, 1, Len(gen)) = general /\ SubSeq(items, Len(gen) + 1, Len(items)) = operation
    <2>1. SubSeq(items, 1, Len(gen)) = [i \in 1 .. Len(gen) |-> items[i]]
      BY <1>7, <1>10
    <2>2. \A i \in 1 .. Len(gen) : 0 + i = i
      BY <1>7
    <2>3. SubSeq(items, Len(gen) + 1, Len(items)) = [i \in 1 .. Len(op) |-> items[Len(gen) + i]]
      BY <1>7, <1>10
    <2> QED
      BY <2>1, <2>2, <2>3
  <1>14. part_sheets' = [part |-> items[context.part_id_index].value.text,
                         general |-> general, operation |-> operation]
    BY <1>2, <1>13 DEF items, nodes, gen, op
  <1>15. \E i \in 1 .. Len(program.refs["General"]) :
            general[i].id = PartIdNid /\ general[i].value.text = part_sheets'.part
    <2>1. context.part_id_index \in 1 .. Len(gen) /\ gen[context.part_id_index].id = PartIdNid
      BY <1>3 DEF PositionKnown, gen
    <2>2. items[context.part_id_index].id = PartIdNid
      <3>1. context.part_id_index \in 1 .. (Len(gen) + Len(op))
        BY <2>1, <1>7
      <3>2. items[context.part_id_index].id = nodes[context.part_id_index].id
        BY <3>1, <1>9
      <3> QED
        BY <2>1, <3>2, <1>8
    <2>3. general[context.part_id_index] = items[context.part_id_index]
      BY <2>1, <1>7
    <2> HIDE DEF general
    <2> QED
      BY <2>1, <2>2, <2>3, <1>6, <1>14
  <1> HIDE DEF general, operation
  <1>16. SaveInv'
    BY <1>1, <1>11, <1>12, <1>14, <1>15
       DEF SaveInv, Agrees, TypeOf, NodesOf, References
  <1>17. MachineInv' /\ SessionType' /\ BrowseInv' /\ CacheInv' /\ LoadedWhereSaved'
    BY <1>1 DEF DiscoveryInv, MachineInv, SessionType, BrowseInv, CacheInv, LoadedWhereSaved
  <1>18. KnownInv'
    BY <1>1, <1>3, <1>4, KnownStays DEF KnownInv, Ready
  <1> QED
    BY <1>16, <1>17, <1>18 DEF DiscoveryInv

\* What is cached are the items of the general part sheet, which come from its namespace.
LEMMA SaveJobInv == DiscoveryInv /\ SaveJob => DiscoveryInv'
  <1> SUFFICES ASSUME DiscoveryInv, SaveJob PROVE DiscoveryInv'
    OBVIOUS
  <1>1. /\ pc = "save_job" /\ pc' = "ready"
        /\ UNCHANGED <<program, contents, sheet, remaining, browsed, context, written>>
    BY DEF SaveJob, machineVars
  <1>2. MachineInv' /\ SessionType' /\ BrowseInv' /\ SaveInv' /\ LoadedWhereSaved'
    BY <1>1 DEF DiscoveryInv, MachineInv, SessionType, BrowseInv, SaveInv, LoadedWhereSaved
  <1>3. "General" \in Sheets /\ "Operation" \in Sheets
    BY DEF Sheets
  <1>4. KnownInv'
    BY <1>1, <1>3, KnownStays DEF DiscoveryInv, KnownInv, Ready
  <1> DEFINE saved == {[id |-> item.id, value |-> item.value, from |-> item.from] :
                         item \in Range(part_sheets.general)}
  <1>5. \A x \in saved : x.from = <<"Common", x.id>>
    <2>1. ASSUME NEW item \in Range(part_sheets.general)
          PROVE  item.from = <<"Common", item.id>>
      <3>1. Agrees(part_sheets.general, "General") /\ Namespace["General"] = "Common"
        BY <1>1 DEF DiscoveryInv, SaveInv, Namespace
      <3>2. PICK i \in 1 .. Len(program.refs["General"]) : item = part_sheets.general[i]
        BY <3>1 DEF Agrees, Range
      <3> QED
        BY <3>1, <3>2 DEF Agrees
    <2> QED
      BY <2>1
  <1>6. \/ cache' = cache
        \/ cache' = [p \in DOMAIN cache \cup {part_sheets.part} |->
                       IF p = part_sheets.part THEN saved ELSE cache[p]]
    BY DEF SaveJob
  <1> HIDE DEF saved
  <1>7. CacheInv'
    BY <1>5, <1>6 DEF DiscoveryInv, CacheInv
  <1> QED
    BY <1>2, <1>4, <1>7 DEF DiscoveryInv

\* Values are given back in the common namespace, where they come from.
LEMMA LoadWriteInv ==
    ASSUME DiscoveryInv, NEW part, LoadWrite(part)
    PROVE  DiscoveryInv'
  <1> DEFINE values == {item \in cache[part] : item.id \notin ExcludedNids}
             accepted == {w \in NodesOf(program) \X values :
                            w[1] \in Target(w[2]) /\ w[2].value \in TypeOf(program, w[1])}
  <1>1. /\ pc = "ready" /\ part \in DOMAIN cache
        /\ UNCHANGED <<program, cache>>
        /\ UNCHANGED <<pc, sheet, remaining, browsed, context, part_sheets>>
    BY DEF LoadWrite, sessionVars
  <1>2. PICK some \in SUBSET accepted :
          /\ contents' = [node \in DOMAIN contents |->
                            IF \E w \in some : w[1] = node
                            THEN (CHOOSE w \in some : w[1] = node)[2].value
                            ELSE contents[node]]
          /\ written' = {<<w[1], w[2].from>> : w \in some}
    BY DEF LoadWrite
  <1>3. program \in Programs /\ contents \in [NodesOf(program) -> Variants]
        /\ \A node \in NodesOf(program) : contents[node] \in TypeOf(program, node)
    BY DEF DiscoveryInv, MachineInv
  <1>4. \A w \in some : /\ w[1] \in NodesOf(program) /\ w[2] \in cache[part]
                        /\ w[1] \in Target(w[2]) /\ w[2].value \in TypeOf(program, w[1])
    BY <1>2
  <1> HIDE DEF accepted
  <1>5. ASSUME NEW node \in NodesOf(program) PROVE contents'[node] \in TypeOf(program, node)
    <2>1. CASE \E w \in some : w[1] = node
      <3> DEFINE w == CHOOSE w \in some : w[1] = node
      <3>1. w \in some /\ w[1] = node
        BY <2>1
      <3>2. contents'[node] = w[2].value
        BY <1>2, <1>3, <2>1
      <3> HIDE DEF w
      <3> QED
        BY <3>1, <3>2, <1>4
    <2>2. CASE ~ \E w \in some : w[1] = node
      BY <2>2, <1>2, <1>3
    <2> QED
      BY <2>1, <2>2
  <1>6. \A node \in NodesOf(program) : contents'[node] \in Variants
    BY <1>3, <1>5, NodeTypes
  <1>7. MachineInv'
    <2>1. DOMAIN contents' = NodesOf(program) /\ contents' = [n \in DOMAIN contents' |-> contents'[n]]
      BY <1>2, <1>3
    <2> QED
      BY <2>1, <1>1, <1>3, <1>5, <1>6 DEF MachineInv, NodesOf, TypeOf, References
  <1>8. LoadedWhereSaved'
    <2>1. "General" \in Sheets /\ Known("General")
      BY <1>1 DEF DiscoveryInv, KnownInv, Ready, Sheets
    <2>2. context.ns_index["General"] = program.index["Common"]
      BY <2>1 DEF Known, Namespace
    <2>3. ASSUME NEW w \in some PROVE w[1] = w[2].from
      <3>1. w[1] \in Designated(program.index["Common"], w[2].id)
        BY <1>4, <2>2 DEF Target
      <3>2. w[1] = <<"Common", w[2].id>>
        BY <3>1, <1>3, DesignatedOne
      <3>3. w[2].from = <<"Common", w[2].id>>
        BY <1>1, <1>4 DEF DiscoveryInv, CacheInv
      <3> QED
        BY <3>2, <3>3
    <2> QED
      BY <2>3, <1>2 DEF LoadedWhereSaved
  <1>9. SessionType' /\ BrowseInv' /\ CacheInv'
    BY <1>1 DEF DiscoveryInv, SessionType, BrowseInv, CacheInv
  <1>10. KnownInv'
    <2>1. "General" \in Sheets /\ "Operation" \in Sheets
      BY DEF Sheets
    <2> QED
      BY <2>1, <1>1, KnownStays DEF DiscoveryInv, KnownInv, Ready
  <1>11. SaveInv'
    BY <1>1 DEF SaveInv
  <1> QED
    BY <1>7, <1>8, <1>9, <1>10, <1>11 DEF DiscoveryInv

-----------------------------------------------------------------------------
(* Invariance *)

\* Nothing is known before the first session.
LEMMA InitDiscoveryInv == Init => DiscoveryInv
  <1> SUFFICES ASSUME Init PROVE DiscoveryInv
    OBVIOUS
  <1>1. MachineInv
    BY InitialContents DEF Init, MachineInv
  <1>2. NoContext \in ContextType
    BY DEF NoContext, ContextType, NodeList
  <1>3. SessionType
    BY <1>2 DEF Init, SessionType, Sheets
  <1>4. BrowseInv /\ KnownInv /\ SaveInv /\ CacheInv /\ LoadedWhereSaved
    BY DEF Init, BrowseInv, KnownInv, Ready, SaveInv, CacheInv, LoadedWhereSaved
  <1> QED
    BY <1>1, <1>3, <1>4 DEF DiscoveryInv

\* Every step of the session and of the machine preserves the invariant.
LEMMA NextDiscoveryInv == DiscoveryInv /\ [Next]_vars => DiscoveryInv'
  <1> SUFFICES ASSUME DiscoveryInv, [Next]_vars PROVE DiscoveryInv'
    OBVIOUS
  <1>1. CASE initialize
    BY <1>1, InitializeInv
  <1>2. CASE get_namespace_index
    BY <1>2, NamespaceInv
  <1>3. CASE BrowsePage
    BY <1>3, BrowsePageInv
  <1>4. CASE BrowseDone
    BY <1>4, BrowseDoneInv
  <1>5. CASE ReadGeneral
    BY <1>5, ReadGeneralInv
  <1>6. CASE ReadOperation
    BY <1>6, ReadOperationInv
  <1>7. CASE SessionEnds
    BY <1>7, SessionEndsInv
  <1>8. CASE SaveRead
    BY <1>8, SaveReadInv
  <1>9. CASE SaveJob
    BY <1>9, SaveJobInv
  <1>10. CASE \E part \in PartIds : LoadWrite(part)
    BY <1>10, LoadWriteInv
  <1>11. CASE \E p \in Programs : Reprogram(p)
    BY <1>11, ReprogramInv
  <1>12. CASE \E node \in NodesOf(program) : SetValue(node)
    BY <1>12, SetValueInv
  <1>13. CASE UNCHANGED vars
    <2>1. /\ UNCHANGED <<program, contents, cache, written>>
          /\ UNCHANGED <<pc, sheet, remaining, browsed, context, part_sheets>>
      BY <1>13 DEF vars, machineVars, sessionVars
    <2>2. MachineInv' /\ SessionType' /\ BrowseInv' /\ CacheInv' /\ LoadedWhereSaved'
      BY <2>1 DEF DiscoveryInv, MachineInv, SessionType, BrowseInv, CacheInv, LoadedWhereSaved
    <2>3. "General" \in Sheets /\ "Operation" \in Sheets
      BY DEF Sheets
    <2>4. KnownInv'
      BY <2>1, <2>3, KnownStays DEF DiscoveryInv, KnownInv, Ready
    <2>5. SaveInv'
      BY <2>1 DEF DiscoveryInv, SaveInv, Agrees, TypeOf, NodesOf, References
    <2> QED
      BY <2>2, <2>4, <2>5 DEF DiscoveryInv
  <1> QED
    BY <1>1, <1>2, <1>3, <1>4, <1>5, <1>6, <1>7, <1>8, <1>9, <1>10, <1>11, <1>12, <1>13
       DEF Next, Handler, Machine

\* The invariant holds in every behaviour.
LEMMA DiscoveryInvariance == Spec => []DiscoveryInv
  <1> QED
    BY InitDiscoveryInv, NextDiscoveryInv, PTL DEF Spec

-----------------------------------------------------------------------------
(* Theorems *)

\* Installed handlers know the whole of both objects: browse_part_sheet loses no page, and
\* the "expect" of handle_save on the position of the part identifier cannot fail.
THEOREM CompleteContexts == Spec => []ContextComplete
  <1>1. DiscoveryInv => ContextComplete
    <2> SUFFICES ASSUME DiscoveryInv, Ready PROVE ContextComplete
      BY DEF ContextComplete
    <2>1. Known("General") /\ Known("Operation") /\ PositionKnown
      BY DEF DiscoveryInv, KnownInv
    <2>2. \A s \in Sheets : context.nodes[s] = Discovered(program.refs[s])
      BY <2>1 DEF Known, Sheets
    <2>3. \A ref \in References(program) : ref.node[2] # NonNumeric /\ ref.name # NullName
      BY <2>1 DEF Known, References
    <2>4. DOMAIN context.nodes["General"] = 1 .. Len(context.nodes["General"])
      BY DEF DiscoveryInv, SessionType, ContextType, NodeList, Sheets
    <2> QED
      BY <2>1, <2>2, <2>3, <2>4 DEF ContextComplete, PositionKnown
  <1> QED
    BY <1>1, DiscoveryInvariance, PTL

\* The values of a save are those of the nodes they are labelled with: the positional cut
\* of read_value_ids and the order of its answer never shift a value.
THEOREM AttributedValues == Spec => []ValuesAttributed
  <1>1. DiscoveryInv => ValuesAttributed
    <2> SUFFICES ASSUME DiscoveryInv, pc = "save_job", OwnNamespace(program)
                 PROVE  ValuesAttributed
      BY DEF ValuesAttributed
    <2> DEFINE Labels(s, items) ==
                 /\ Len(items) = Len(program.refs[s])
                 /\ \A item \in Range(items) : \E ref \in Range(program.refs[s]) :
                     item.from = ref.node /\ item.id = ref.node[2] /\ item.name = ref.name
    <2>1. ASSUME NEW s \in Sheets, NEW items, Agrees(items, s) PROVE Labels(s, items)
      <3>1. program \in Programs /\ program.refs[s] \in Seq(Reference)
        BY ProgramParts DEF DiscoveryInv, MachineInv
      <3>2. Len(items) = Len(program.refs[s]) /\ DOMAIN items = 1 .. Len(program.refs[s])
        BY <2>1 DEF Agrees
      <3>3. ASSUME NEW i \in 1 .. Len(program.refs[s])
            PROVE  /\ program.refs[s][i] \in Range(program.refs[s])
                   /\ items[i].from = program.refs[s][i].node
                   /\ items[i].id = program.refs[s][i].node[2]
                   /\ items[i].name = program.refs[s][i].name
        <4>1. program.refs[s][i] \in Range(program.refs[s]) /\ program.refs[s][i] \in Reference
          BY <3>1 DEF Range
        <4>2. program.refs[s][i].node[1] = Namespace[s]
          BY <4>1 DEF OwnNamespace
        <4>3. program.refs[s][i].node = <<program.refs[s][i].node[1], program.refs[s][i].node[2]>>
          BY <4>1 DEF Reference
        <4> QED
          BY <4>1, <4>2, <4>3, <2>1 DEF Agrees
      <3> QED
        BY <3>2, <3>3 DEF Range
    <2>2. Agrees(part_sheets.general, "General") /\ Agrees(part_sheets.operation, "Operation")
      BY DEF DiscoveryInv, SaveInv
    <2>3. Labels("General", part_sheets.general) /\ Labels("Operation", part_sheets.operation)
      BY <2>1, <2>2 DEF Sheets
    <2> QED
      BY <2>3 DEF ValuesAttributed
  <1> QED
    BY <1>1, DiscoveryInvariance, PTL

\* A part sheet is filed under the identifier that is in it.
THEOREM FiledUnderItsId == Spec => []PartFiledUnderItsId
  <1>1. DiscoveryInv => PartFiledUnderItsId
    BY DEF DiscoveryInv, SaveInv, Agrees, PartFiledUnderItsId, Range
  <1> QED
    BY <1>1, DiscoveryInvariance, PTL

\* What the initialization has checked is enough for every later save to have a JSON form.
THEOREM CheckedSheetsSuffice == Spec => []CheckedSheetsEncode
  <1>1. DiscoveryInv => CheckedSheetsEncode
    <2> SUFFICES ASSUME DiscoveryInv, pc = "save_job", OwnNamespace(program), KeepsTypes(program)
                 PROVE  Encodable
      BY DEF CheckedSheetsEncode
    <2>1. ASSUME NEW s \in Sheets, NEW items, Agrees(items, s), Known(s), NEW item \in Range(items)
          PROVE  Serializable(item.value)
      <3>1. program \in Programs /\ program.refs[s] \in Seq(Reference)
        BY ProgramParts DEF DiscoveryInv, MachineInv
      <3>2. PICK i \in 1 .. Len(program.refs[s]) : item = items[i]
        BY <2>1 DEF Agrees, Range
      <3>3. program.refs[s][i] \in Range(program.refs[s]) /\ program.refs[s][i] \in Reference
        BY <3>1 DEF Range
      <3>4. program.refs[s][i].node = <<Namespace[s], program.refs[s][i].node[2]>>
        BY <3>3 DEF OwnNamespace, Reference
      <3>5. item.from = program.refs[s][i].node /\ item.value \in TypeOf(program, item.from)
        BY <2>1, <3>2, <3>4 DEF Agrees
      <3> QED
        BY <2>1, <3>3, <3>5 DEF Known
    <2>2. /\ Agrees(part_sheets.general, "General") /\ Agrees(part_sheets.operation, "Operation")
          /\ Known("General") /\ Known("Operation")
      BY DEF DiscoveryInv, SaveInv, KnownInv, Ready
    <2> QED
      BY <2>1, <2>2 DEF Encodable, Sheets
  <1> QED
    BY <1>1, DiscoveryInvariance, PTL

\* A read gives every value back to the node it was saved from, whatever the programs and
\* the sessions in between.
THEOREM LoadedWhereSavedInvariance == Spec => []LoadedWhereSaved
  <1>1. DiscoveryInv => LoadedWhereSaved
    BY DEF DiscoveryInv
  <1> QED
    BY <1>1, DiscoveryInvariance, PTL
=============================================================================
