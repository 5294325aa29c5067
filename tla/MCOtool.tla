------------------------------ MODULE MCOtool ------------------------------
(***************************************************************************)
(* Objects for the runs of Otool, with one extent for all their sections.  *)
(***************************************************************************)
EXTENDS Otool, MCObjects

\* The text section in the second segment, behind another of its segment.
TextLast(is64) ==
  <<PageZero(is64), Data(is64), Other(16), Segment(is64, <<Names.stubs, Names.text>>)>>
TwoTexts(is64) == <<Text(is64), Text(is64)>>

Layout(kind, is64) ==
  CASE kind = "ordered"  -> Ordered(is64, 0)
    [] kind = "last"     -> TextLast(is64)
    [] kind = "two"      -> TwoTexts(is64)
    [] kind = "no text"  -> <<PageZero(is64), Data(is64)>>
    [] kind = "size 0"   -> ZeroSize(is64)

FileOf(f) == Object(f.is64, f.swap, f.base, f.size, f.nc, Layout(f.kind, f.is64), <<>>)

HostNames ==
  [kind : {"ordered", "last", "two", "no text", "size 0"}, is64 : BOOLEAN, swap : {FALSE},
   base : {64}, size : {80, 95, 96, 170, 260, 340, 430, 560, 1000}, nc : {0, 2, 5}, length : {0, 33}]
ManyNames ==
  [kind : {"ordered", "two"}, is64 : {TRUE}, swap : {FALSE}, base : {0, 64}, size : {820, 2000},
   nc : {5}, length : {16, 40}]
SwappedNames ==
  [kind : {"ordered", "last", "size 0"}, is64 : BOOLEAN, swap : {TRUE}, base : {0}, size : {500, 1000},
   nc : {2, 5}, length : {33}]

AllNames == HostNames \cup ManyNames \cup SwappedNames
MCObjs   == [f \in AllNames |-> FileOf(f)]
MCExtents ==
  [f \in AllNames |->
     [q \in Sections(FileOf(f)) |-> [addr |-> 4096 + q, size |-> f.length, offset |-> 800]]]

HostInputs ==
  {<<f>> : f \in HostNames} \cup {<<f, g>> : f, g \in ManyNames}
  \cup {<<f, f, f>> : f \in ManyNames} \cup {<<>>}
SwappedInputs == {<<f>> : f \in SwappedNames} \cup {<<f, f>> : f \in SwappedNames}
MCInputs      == HostInputs \cup SwappedInputs
PowerPcInputs == {<<f>> : f \in {g \in SwappedNames : g.kind = "ordered" /\ g.size = 1000}}
=============================================================================
