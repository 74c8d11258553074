------------------------------ MODULE GalTree ------------------------------
(***************************************************************************)
(* The GAL page of the web user interface (tree.js).  The answer to        *)
(* /json/gal becomes a tree of nodes in layers: 0 for logical resources, 1 *)
(* for the device, 2 and on for physical ones.  Then the events of the     *)
(* mouse light nodes up and select them, each finding its node again by    *)
(* the text of an id, and the window is resized.  Every callback runs to   *)
(* its end; an exception (a property of undefined, or of 'No') ends it     *)
(* where it is.                                                            *)
(***************************************************************************)
EXTENDS Integers, SequencesExt

CONSTANTS
  Answers,  \* answers: sequences of ids; an id is the sequence of its parts
  Bare,     \* the ids of cores and cpus, whose nodes are built without states
  Logical,  \* parts of ids with "deth" in them
  Widths,   \* widths of the container, wider than a box
  BoxWidth  \* boxw

RootId == <<"0">>
NoText == <<"">>  \* the id of an element that was given none

(* "0." begins the ids that JsonController makes of the names of interfaces *)
(* and elements, and those of the cores, in the answers of DemoLcp.        *)
ASSUME TreeAssumption ==
  /\ BoxWidth \in Nat \ {0} /\ RootId \notin Bare
  /\ \A w \in Widths : w \in Nat /\ w > BoxWidth
  /\ \A a \in Answers :
       /\ a \in Seq(Seq(STRING)) /\ IsInjective(a)
       /\ \A i \in DOMAIN a : Len(a[i]) > 1 /\ a[i][1] = "0"

VARIABLES
  given,    \* the ids of the answer
  tree,     \* NodeList and NodeLayers (layer l at l + 1)
  fill,     \* colour of the box of each node
  pointer,  \* the node and the shape under the mouse
  selected, \* selectedNode
  outlined, \* nodes with a red outline
  width,    \* xc
  strayed,  \* history: why the colours may not follow the pointer
  failed    \* history: what the last click threw on

treeVars == <<given, tree, fill, pointer, selected, outlined, width, strayed, failed>>

-----------------------------------------------------------------------------
(* The tree.                                                               *)

NoNode == [id |-> <<>>, layer |-> 0]
TreeNodeVariant(id) == [id |-> id, layer |-> Len(id) - 1]
TreeNode(id) == [id |-> id, layer |-> IF Len(id) = 2 /\ id[2] \in Logical THEN 0 ELSE Len(id)]
Root == TreeNode(RootId)

Layer(t, l) == t.layers[l + 1]

AcceptsVariant(t, n) == n.layer < Len(t.layers)
Accepts(t, n) == n.layer <= Len(t.layers)

AddNode(t, n) ==
  IF ~Accepts(t, n) THEN t
  ELSE [nodes |-> Append(t.nodes, n),
        layers |-> IF n.layer = Len(t.layers) THEN Append(t.layers, <<n>>)
                   ELSE [t.layers EXCEPT ![n.layer + 1] = Append(@, n)]]

EmptyTree == [nodes |-> <<Root>>, layers |-> <<<<>>, <<Root>>>>]

Build(ids) ==
  LET built[k \in 0..Len(ids)] ==
        IF k = 0 THEN EmptyTree ELSE AddNode(built[k - 1], TreeNode(ids[k]))
  IN built[Len(ids)]

(* The layer 0 is looked at for the ids "1.x" only. *)
SearchedLayerVariant(id) == Len(id) + 1
SearchedLayer(id) == IF Len(id) = 2 /\ id[1] = "1" THEN 0 ELSE Len(id)

PlacesOf(s, id) == {k \in DOMAIN s : s[k].id = id}
FirstWith(s, id) == IF PlacesOf(s, id) = {} THEN Root ELSE s[Min(PlacesOf(s, id))]

(* Without that layer the search throws; otherwise the root stands for     *)
(* what it does not find.                                                  *)
TreefindById(id) ==
  IF SearchedLayer(id) >= Len(tree.layers) THEN NoNode
  ELSE FirstWith(Layer(tree, SearchedLayer(id)), id)

TreefindParent(n) ==
  IF n.layer = 0 THEN Root
  ELSE LET above == Layer(tree, n.layer - 1)
           hits == PlacesOf(above, Front(n.id))
       IN IF hits = {} THEN NoNode ELSE above[Max(hits)]

(* Of the root: the layers 0 and 2, and an exception without the latter.   *)
HasChildren(n) == n # Root \/ Len(tree.layers) > 2
ChildrenIn(n) == IF n.layer > 1 /\ n.layer < Len(tree.layers) - 1 THEN n.layer + 1 ELSE 0
TreefindChild(n) ==
  IF n = Root THEN ToSet(Layer(tree, 0)) \cup ToSet(Layer(tree, 2))
  ELSE {c \in ToSet(Layer(tree, ChildrenIn(n))) : ChildrenIn(n) > 0 /\ Front(c.id) = n.id}

-----------------------------------------------------------------------------
(* The events of the mouse.                                                *)

Painted(f, nodes, colour) == [n \in DOMAIN f |-> IF n \in nodes THEN colour ELSE f[n]]

Parents(n) == IF n = Root THEN {} ELSE {TreefindParent(n)}
Throws(n) == NoNode \in Parents(n) \/ ~HasChildren(n)

(* NodeHighlight: the node, its parent, its children; an exception leaves  *)
(* the node red.                                                           *)
Highlight(f, n) ==
  LET red == Painted(f, {n}, "red")
  IN IF Throws(n) THEN red ELSE Painted(red, Parents(n) \cup TreefindChild(n), "orange")

(* NodeUnlight: the parent, the node, its children; without a parent it    *)
(* changes nothing.                                                        *)
UnlitVariant(n) == Parents(n) \cup {n}
Unlit(n) == Parents(n) \cup {n} \cup TreefindChild(n)

Unlight(f, n) ==
  IF NoNode \in Parents(n) THEN f
  ELSE IF Throws(n) THEN Painted(f, {n}, "white") ELSE Painted(f, Unlit(n), "white")

Away == [node |-> NoNode, on |-> "nothing"]

Note(reason, cond) == IF cond THEN {reason} ELSE {}

MouseOver(n, on) ==
  /\ pointer = Away
  /\ pointer' = [node |-> n, on |-> on]
  /\ LET found == TreefindById(n.id)
     IN /\ fill' = IF found = NoNode THEN fill ELSE Highlight(fill, found)
        /\ strayed' = strayed \cup Note("notFound", found # n)
                              \cup Note("threw", found = NoNode \/ Throws(found))
  /\ UNCHANGED <<given, tree, selected, outlined, width, failed>>

(* A label has no id of its own, and mouseout asks for that.               *)
EventId == IF pointer.on = "box" THEN pointer.node.id ELSE NoText

MouseOut ==
  /\ pointer # Away
  /\ pointer' = Away
  /\ LET found == TreefindById(EventId)
     IN /\ fill' = IF found = NoNode THEN fill ELSE Unlight(fill, found)
        /\ strayed' = strayed \cup Note("label", pointer.on = "label")
                              \cup Note("threw", found = NoNode \/ Throws(found))
  /\ UNCHANGED <<given, tree, selected, outlined, width, failed>>

(* NodeSelect: the outline leaves the node that was selected and goes to   *)
(* the new one, unless $.each throws before because that has no states.    *)
HasStates(n) == n.id \notin Bare

OutlineVariant(n) == outlined \cup {m \in {n} : HasStates(m)}
Outline(n) == (outlined \ {selected}) \cup {m \in {n} : HasStates(m)}

Click ==
  /\ pointer # Away
  /\ LET found == TreefindById(EventId)
     IN /\ selected' = IF found = NoNode THEN selected ELSE found
        /\ outlined' = IF found = NoNode THEN outlined ELSE Outline(found)
        /\ failed' = {n \in {found} : n = NoNode \/ ~HasStates(n)}
  /\ UNCHANGED <<given, tree, fill, pointer, width, strayed>>

(* redrawTree: NodeCoo places the nodes of each layer anew.                *)
Resize(w) ==
  /\ width' = w
  /\ UNCHANGED <<given, tree, fill, pointer, selected, outlined, strayed, failed>>

-----------------------------------------------------------------------------
(* NodeCoo.  n nodes share treew; box k begins at Offset(k, n) / (2 n), in *)
(* one of Room(n) rows.                                                    *)

TreeWidth == width - BoxWidth
RoomVariant(n) == 1
Room(n) == (n * BoxWidth) \div TreeWidth + 1
Offset(k, n) == TreeWidth * (2 * k + 1)
Row(k, n) == k % Room(n)

-----------------------------------------------------------------------------

TreeInit ==
  /\ given \in Answers
  /\ tree = Build(given)
  /\ fill = [n \in ToSet(tree.nodes) |-> "white"]
  /\ pointer = Away
  /\ selected = NoNode /\ outlined = {}
  /\ width \in Widths
  /\ strayed = {} /\ failed = {}

TreeNext ==
  \/ \E n \in ToSet(tree.nodes), on \in {"box", "label"} : MouseOver(n, on)
  \/ MouseOut
  \/ Click
  \/ \E w \in Widths : Resize(w)

TreeSpec == TreeInit /\ [][TreeNext]_treeVars

-----------------------------------------------------------------------------

Nodes == ToSet(tree.nodes)

TreeTypeOK ==
  /\ given \in Answers
  /\ tree.nodes[1] = Root /\ tree.layers[2] = <<Root>>
  /\ fill \in [Nodes -> {"white", "red", "orange"}]
  /\ pointer = Away \/ (pointer.node \in Nodes /\ pointer.on \in {"box", "label"})
  /\ selected \in Nodes \cup {NoNode} /\ outlined \subseteq Nodes
  /\ width \in Widths
  /\ strayed \subseteq {"notFound", "threw", "label"}
  /\ failed \subseteq Nodes \cup {NoNode}

(* p is where n hangs: the root over the first two layers around it. *)
Above(p, n) == p.id = Front(n.id) /\ p.layer = IF n.layer = 0 THEN 1 ELSE n.layer - 1

(* Every id whose parent is placed before it is placed, and the layers     *)
(* share the nodes out, each once; what addNode drops has parts that       *)
(* nobody gave (a host name with dots, cores of an unknown element).       *)
NodesPlaced ==
  /\ \A i \in DOMAIN given :
       (\/ Len(given[i]) = 2
        \/ \E j \in 1..i - 1 : /\ TreeNode(given[j]) \in Nodes
                               /\ Above(TreeNode(given[j]), TreeNode(given[i])))
         => TreeNode(given[i]) \in Nodes
  /\ IsInjective(tree.nodes) /\ \A n \in Nodes : n.layer < Len(tree.layers)
  /\ \A l \in 0..Len(tree.layers) - 1 :
       IsInjective(Layer(tree, l)) /\ ToSet(Layer(tree, l)) = {n \in Nodes : n.layer = l}

(* The colours follow the pointer: its node red, the parent and the        *)
(* children orange, all others white, and nothing stays lit behind it,     *)
(* however it moves, until it touches a label (whose mouseout has no id),  *)
(* a node that is not found by its id or one whose parent is not there.    *)
ExpectedFill(n) ==
  IF pointer = Away THEN "white"
  ELSE IF n = pointer.node THEN "red"
  ELSE IF Above(n, pointer.node) \/ Above(pointer.node, n) THEN "orange"
  ELSE "white"

LightFollowsPointer == strayed = {} => fill = [n \in Nodes |-> ExpectedFill(n)]

(* In a tree with physical resources and without gaps the mouse makes no   *)
(* callback throw when it moves, and when it clicks only on cores and cpus *)
(* (tree.js:346): wherever it finds a node, that is one of the tree.       *)
ThrowsKnown ==
  (/\ \E n \in Nodes : n.layer = 2
   /\ \A n \in Nodes \ {Root} : \E p \in Nodes : Above(p, n))
    => /\ "threw" \notin strayed
       /\ \A n \in failed : n \in Nodes /\ n.id \in Bare

(* The outline marks the selected node and no other, unless that one has   *)
(* no states: a click on a core leaves no node outlined.                   *)
OutlineMarksSelected == outlined = {n \in {selected} \ {NoNode} : HasStates(n)}

(* No two boxes of one layer overlap, whatever the width of the window and *)
(* the number of nodes: rows are BoxWidth's own height apart, and the      *)
(* boxes of one row at least BoxWidth.                                     *)
BoxesApart ==
  \A l \in 1..Len(tree.layers) :
    LET n == Len(tree.layers[l])
    IN \A j, k \in 0..n - 1 :
         (j < k /\ Row(j, n) = Row(k, n)) => Offset(k, n) - Offset(j, n) >= 2 * n * BoxWidth

(* The tree holds what its answer allows, its callbacks throw only where   *)
(* something is missing or a core is clicked, the outline is on the node   *)
(* that is selected, and the boxes do not overlap.                         *)
TreeDrawn == NodesPlaced /\ ThrowsKnown /\ OutlineMarksSelected /\ BoxesApart

=============================================================================
