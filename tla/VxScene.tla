------------------------------ MODULE VxScene ------------------------------
(***************************************************************************)
(* What a tree of vx objects looks like on the screen: objects append      *)
(* themselves to a buffer's code stream (vx_program.c, vxo_chain.c,        *)
(* vxo_depth_test.c, vxo_pix_coords.c, vxo_mat.c of src/src/vx), and       *)
(* draw_frame of vx_gl_renderer.c interprets the codes with stacks of its  *)
(* own and the state that GL keeps from one program to the next.           *)
(* A matrix is the sequence of its factors; a resource is its name.        *)
(***************************************************************************)
EXTENDS Integers, Sequences, FiniteSets, SequencesExt, Functions

CONSTANTS
  None,
  Location,      \* where linking put the attributes: [shader -> [attribute -> location]]
  MaxObjects,    \* bound on the objects, containers included
  MaxBuffers     \* bound on the buffers of the world

VARIABLES
  buffers,       \* the buffers that are complete: codes, draw order, and what they mean
  codes,         \* the codes of the buffer being built
  resources,     \* the resources put beside the codes
  open,          \* the containers being appended, from the outside in
  scope,         \* history: what is in force here: model, projection and depth test
  meant,         \* history: the draws of this buffer with what was in force at each
  count,         \* the objects made
  drawn          \* the draw calls of the frame, or None before it

vars == <<buffers, codes, resources, open, scope, meant, count, drawn>>

Op(name, arg) == [op |-> name, arg |-> arg]

NoFunction == [x \in {} |-> None]
With(f, x, v) == [y \in DOMAIN f \cup {x} |-> IF y = x THEN v ELSE f[y]]

-----------------------------------------------------------------------------
(* vx_program_t: what is set on a program before it is appended. *)

LoadLibrary(shader) ==
  [shader |-> shader, flags |-> {"PM"}, attribs |-> NoFunction, uniforms |-> NoFunction,
   texture |-> None, size |-> 1, indices |-> None]

SetVertexAttrib(p, name, resc) == [p EXCEPT !.attribs = With(@, name, resc)]
SetUniform(p, name, value) == [p EXCEPT !.uniforms = With(@, name, value)]
SetTexture(p, resc) == [p EXCEPT !.texture = resc]
SetElementArray(p, resc) == [p EXCEPT !.indices = resc]
SetLineWidth(p, size) == [p EXCEPT !.size = size]
SetFlags(p, flags) == [p EXCEPT !.flags = @ \cup flags]

\* vxp_single_color, vxp_multi_colored_indexed, vxp_texture, and a lit mesh.
SingleColor ==
  SetUniform(SetVertexAttrib(LoadLibrary("single-color"), "position", "points"), "color", "red")
MultiColored ==
  SetLineWidth(
    SetElementArray(
      SetVertexAttrib(SetVertexAttrib(LoadLibrary("multi-colored"), "position", "points"),
                      "color", "colors"), "indices"), 3)
Texture ==
  SetElementArray(SetTexture(SetVertexAttrib(LoadLibrary("texture"), "texIn", "corners"), "image"),
                  "indices")
Lit == SetFlags(SetUniform(SingleColor, "color", "blue"), {"M", "N"})

Programs == {SingleColor, MultiColored, Texture, Lit}

\* vx_program_append; the entries of a hash table come in whatever order it has them.
ProgramCodes(p) ==
  <<Op("PROGRAM", p.shader)>>
  \o SetToSeq({Op("MAT_NAME", f) : f \in p.flags})
  \o SetToSeq({Op("VERT_ATTRIB", <<n, p.attribs[n]>>) : n \in DOMAIN p.attribs})
  \o SetToSeq({Op("UNIFORM", <<n, p.uniforms[n]>>) : n \in DOMAIN p.uniforms})
  \o (IF p.texture = None THEN <<>> ELSE <<Op("TEXTURE", p.texture)>>)
  \o <<Op("LINE_WIDTH", p.size)>>
  \o (IF p.indices # None THEN <<Op("ELEMENT_ARRAY", p.indices)>> ELSE <<Op("DRAW_ARRAY", None)>>)
  \o <<Op("END", None)>>

\* Mutant of ProgramResources: the indices are not sent.
ProgramResources_NoIndices(p) == ({p.shader, p.texture} \cup Range(p.attribs)) \ {None}
ProgramResources(p) ==
  ({p.shader, p.texture, p.indices} \cup Range(p.attribs)) \ {None}

-----------------------------------------------------------------------------
(* The tree, appended from its root: containers open and close. *)

Containers == {"chain", "no depth test", "depth test", "pix coords"}

Prologue(kind) ==
  CASE kind = "chain" -> <<Op("MODEL_PUSH", None)>>
    [] kind = "no depth test" -> <<Op("DEPTH_PUSH", None), Op("DEPTH", FALSE)>>
    [] kind = "depth test" -> <<Op("DEPTH_PUSH", None), Op("DEPTH", TRUE)>>
    [] kind = "pix coords" -> <<Op("PROJ_PUSH", None), Op("PROJ_PIXCOORDS", None)>>

\* Mutant of Epilogue: a chain does not restore the matrix.
Epilogue_ChainOpen(kind) ==
  CASE kind = "chain" -> <<>>
    [] kind \in {"no depth test", "depth test"} -> <<Op("DEPTH_POP", None)>>
    [] kind = "pix coords" -> <<Op("PROJ_POP", None)>>
Epilogue(kind) ==
  CASE kind = "chain" -> <<Op("MODEL_POP", None)>>
    [] kind \in {"no depth test", "depth test"} -> <<Op("DEPTH_POP", None)>>
    [] kind = "pix coords" -> <<Op("PROJ_POP", None)>>

TopScope == [model |-> <<>>, proj |-> "layer", depth |-> TRUE]

\* A chain takes any number of objects, the others take one.
Room == open # <<>> => Last(open).kind = "chain" \/ Last(open).objs = 0

Filled == IF open = <<>> THEN open ELSE [open EXCEPT ![Len(open)].objs = @ + 1]

NewObject == drawn = None /\ Room /\ count < MaxObjects /\ count' = count + 1

Open(kind) ==
  /\ NewObject
  /\ codes' = codes \o Prologue(kind)
  /\ open' = Append(Filled, [kind |-> kind, objs |-> 0, outside |-> scope])
  /\ scope' =
       CASE kind = "chain" -> scope
         [] kind = "pix coords" -> [scope EXCEPT !.proj = "pixels"]
         [] kind \in {"no depth test", "depth test"} ->
              [scope EXCEPT !.depth = (kind = "depth test")]
  /\ UNCHANGED <<buffers, resources, meant, drawn>>

\* What a container put in force ends with it: a chain's matrix, and so on.
Close ==
  /\ drawn = None /\ open # <<>> /\ Last(open).objs > 0
  /\ LET c == Last(open)
     IN /\ codes' = codes \o Epilogue(c.kind)
        /\ scope' =
             CASE c.kind = "chain" -> [scope EXCEPT !.model = c.outside.model]
               [] c.kind = "pix coords" -> [scope EXCEPT !.proj = c.outside.proj]
               [] c.kind \in {"no depth test", "depth test"} ->
                    [scope EXCEPT !.depth = c.outside.depth]
  /\ open' = Front(open)
  /\ UNCHANGED <<buffers, resources, meant, count, drawn>>

AddMatrix ==
  /\ NewObject
  /\ codes' = Append(codes, Op("MODEL_MULTF", count))
  /\ scope' = [scope EXCEPT !.model = Append(@, count)]
  /\ open' = Filled
  /\ UNCHANGED <<buffers, resources, meant, drawn>>

AddProgram(p) ==
  /\ NewObject
  /\ codes' = codes \o ProgramCodes(p)
  /\ resources' = resources \cup ProgramResources(p)
  /\ meant' = Append(meant, [program |-> p, scope |-> scope])
  /\ open' = Filled
  /\ UNCHANGED <<buffers, scope, drawn>>

\* The buffer is complete and is sent with its draw order.
Swap(order) ==
  /\ drawn = None /\ open = <<>> /\ codes # <<>> /\ Len(buffers) < MaxBuffers
  /\ \A i \in 1 .. Len(buffers) : buffers[i].order # order
  /\ buffers' = Append(buffers, [codes |-> codes, order |-> order, meant |-> meant])
  /\ codes' = <<>> /\ meant' = <<>> /\ scope' = TopScope
  /\ UNCHANGED <<resources, open, count, drawn>>

-----------------------------------------------------------------------------
(* draw_frame.  A stack is a sequence whose last element is its top. *)

Pushed(stack, x) == Append(stack, x)

\* The state of GL when a layer's drawing begins: what earlier programs left in it
\* but for the depth test.
Fresh ==
  [shader |-> None, uniforms |-> [s \in DOMAIN Location |-> NoFunction],
   arrays |-> NoFunction, texture |-> None, size |-> 1, depth |-> TRUE,
   M |-> <<>>, models |-> <<>>, P |-> "layer", projs |-> <<>>, depths |-> <<>>,
   mine |-> {}, draws |-> <<>>]

MatrixOp(g, o) ==
  CASE o.op = "MODEL_PUSH"     -> [g EXCEPT !.models = Pushed(@, g.M)]
    [] o.op = "MODEL_POP"      -> [g EXCEPT !.M = Last(g.models), !.models = Front(@)]
    [] o.op = "MODEL_MULTF"    -> [g EXCEPT !.M = Append(@, o.arg)]
    [] o.op = "PROJ_PUSH"      -> [g EXCEPT !.projs = Pushed(@, g.P)]
    [] o.op = "PROJ_POP"       -> [g EXCEPT !.P = Last(g.projs), !.projs = Front(@)]
    [] o.op = "PROJ_PIXCOORDS" -> [g EXCEPT !.P = "pixels"]

\* The depth flags are taken from the front of their array.
DepthOp(g, o) ==
  CASE o.op = "DEPTH"      -> [g EXCEPT !.depth = o.arg]
    [] o.op = "DEPTH_PUSH" -> [g EXCEPT !.depths = Pushed(@, g.depth)]
    [] o.op = "DEPTH_POP"  -> [g EXCEPT !.depth = Head(g.depths), !.depths = Tail(@)]

Uniform(g, name, value) == [g EXCEPT !.uniforms[g.shader] = With(@, name, value)]

\* What a matrix that the program asks for by name is computed from.
MatrixFor(g, name) == IF name = "PM" THEN <<g.P, g.M>> ELSE <<g.M>>

\* glDrawArrays and glDrawElements draw with all that is set in GL.
Draw(g, indices) ==
  [g EXCEPT !.draws = Append(@,
     [shader |-> g.shader, uniforms |-> g.uniforms[g.shader], arrays |-> g.arrays,
      texture |-> g.texture, size |-> g.size, indices |-> indices, depth |-> g.depth])]

\* Mutant of Disabled: the arrays of a program stay enabled.
Disabled_Not(g) == [g EXCEPT !.mine = {}]
\* The arrays that the program enabled are disabled at its end.
Disabled(g) ==
  [g EXCEPT !.arrays = [l \in DOMAIN @ \ g.mine |-> @[l]], !.mine = {}]

\* render_program
ProgramOp(g, o) ==
  CASE o.op = "PROGRAM"     -> [g EXCEPT !.shader = o.arg]
    [] o.op = "MAT_NAME"    -> Uniform(g, o.arg, MatrixFor(g, o.arg))
    [] o.op = "VERT_ATTRIB" ->
         LET l == Location[g.shader][o.arg[1]]
         IN [g EXCEPT !.arrays = With(@, l, o.arg[2]), !.mine = @ \cup {l}]
    [] o.op = "UNIFORM"     -> Uniform(g, o.arg[1], o.arg[2])
    [] o.op = "TEXTURE"     -> [g EXCEPT !.texture = o.arg]
    [] o.op = "LINE_WIDTH"  -> [g EXCEPT !.size = o.arg]
    [] o.op = "DRAW_ARRAY"  -> Draw(g, None)
    [] o.op = "ELEMENT_ARRAY" -> Draw(g, o.arg)
    [] o.op = "END"         -> Disabled(g)

Interpret(g, o) ==
  IF o.op \in {"DEPTH", "DEPTH_PUSH", "DEPTH_POP"} THEN DepthOp(g, o)
  ELSE IF o.op \in {"MODEL_PUSH", "MODEL_POP", "MODEL_MULTF",
                    "PROJ_PUSH", "PROJ_POP", "PROJ_PIXCOORDS"} THEN MatrixOp(g, o)
  ELSE ProgramOp(g, o)

\* Mutant of StacksFor: the matrices of the last buffer stay in force.
StacksFor_Kept(g) == g
\* Every buffer has matrices and stacks of its own, but not its own depth flag.
StacksFor(g) ==
  [g EXCEPT !.M = <<>>, !.models = <<>>, !.P = "layer", !.projs = <<>>, !.depths = <<>>]

InDrawOrder == SortSeq(buffers, LAMBDA a, b : a.order < b.order)

DrawFrame ==
  /\ drawn = None /\ codes = <<>> /\ buffers # <<>>
  /\ drawn' = FoldLeft(LAMBDA g, b : FoldLeft(Interpret, StacksFor(g), b.codes),
                       Fresh, InDrawOrder).draws
  /\ UNCHANGED <<buffers, codes, resources, open, scope, meant, count>>

Init ==
  /\ buffers = <<>> /\ codes = <<>> /\ resources = {} /\ open = <<>>
  /\ scope = TopScope /\ meant = <<>> /\ count = 0 /\ drawn = None

Next ==
  \/ \E kind \in Containers : Open(kind)
  \/ Close
  \/ AddMatrix
  \/ \E p \in Programs : AddProgram(p)
  \/ \E order \in 1 .. MaxBuffers : Swap(order)
  \/ DrawFrame

Spec == Init /\ [][Next]_vars

-----------------------------------------------------------------------------
Meant == FlattenSeq([i \in 1 .. Len(buffers) |-> InDrawOrder[i].meant])

NestsDepthTests ==
  \E b \in 1 .. Len(buffers) : LET cs == buffers[b].codes IN
    \E i, j \in 1 .. Len(cs) :
      /\ i < j /\ cs[i].op = "DEPTH_PUSH" /\ cs[j].op = "DEPTH_PUSH"
      /\ \A k \in i .. j : cs[k].op # "DEPTH_POP"

Includes(f, g) == \A x \in DOMAIN g : x \in DOMAIN f /\ f[x] = g[x]

\* The draw d is what the object m stands for where it is, the depth test left out.
Shows(d, m) ==
  LET p == m.program
  IN /\ d.shader = p.shader /\ d.size = p.size /\ d.indices = p.indices
     /\ Includes(d.uniforms, p.uniforms)
     /\ Includes(d.uniforms, [f \in p.flags |-> IF f = "PM" THEN <<m.scope.proj, m.scope.model>>
                                                ELSE <<m.scope.model>>])
     /\ d.arrays = [l \in {Location[p.shader][n] : n \in DOMAIN p.attribs} |->
                      p.attribs[CHOOSE n \in DOMAIN p.attribs : Location[p.shader][n] = l]]
     /\ p.texture # None => d.texture = p.texture

\* Every program of every object is drawn once and in its place, with its own data,
\* parameters and texture, under the matrices of the containers it is in and of none
\* it is not in, whatever was drawn before it; the depth test is what the container
\* says as long as no depth test is inside another.
DrawnAsBuilt ==
  drawn # None =>
    /\ Len(drawn) = Len(Meant)
    /\ \A i \in 1 .. Len(drawn) :
         /\ Shows(drawn[i], Meant[i])
         /\ ~NestsDepthTests => drawn[i].depth = Meant[i].scope.depth

\* The renderer finds every resource that the codes name among those sent with them.
ResourcesSent ==
  \A i \in 1 .. Len(codes) :
    LET o == codes[i]
    IN /\ o.op \in {"PROGRAM", "TEXTURE", "ELEMENT_ARRAY"} => o.arg \in resources
       /\ o.op = "VERT_ATTRIB" => o.arg[2] \in resources

\* The depth test is on or off for an object and all that is encapsulated in it.
DepthTestIsScoped ==
  drawn # None => \A i \in 1 .. Len(drawn) : drawn[i].depth = Meant[i].scope.depth
=============================================================================
