---------------------------- MODULE MotionPlanner ----------------------------
(***************************************************************************)
(* Planning a path over an occupancy grid (src/src/planning,               *)
(* src/src/mapping).  The distance of every free cell to an obstacle is    *)
(* spread from the obstacles, then A* looks for a path that keeps the      *)
(* robot's radius away from them, and the path is reduced to the corners   *)
(* where it turns.                                                         *)
(*                                                                         *)
(* Lengths are in thousandths of a cell, positions in halves of a cell.    *)
(* Of nodes of equal priority the queues may give any first.               *)
(***************************************************************************)
EXTENDS Integers, Sequences, FiniteSets, SequencesExt

CONSTANTS
  Width, Height,
  Maps,           \* occupancy grids: functions from cells to "free", "unknown", "occupied"
  Positions,      \* where the robot may be, in the grid
  Goals,          \* where it may be sent
  RobotRadius,    \* params_.robotRadius, minDistanceToObstacle
  MaxDistanceWithCost,
  MetersPerCell   \* one over it

Cells == (0 .. Width - 1) \X (0 .. Height - 1)
MaxFloat == 1000000
Unreached == MaxFloat

VARIABLES
  map,           \* the occupancy grid
  distances,     \* distances_ of the planner
  spreading,     \* the queue of setDistances: [cell, obstacle]
  phase,         \* "none", "spread", "ready", "search", "trace", "planned"
  start, goal,   \* cells
  queue,         \* searchQueue: [cell, parent, costSoFar]
  costs, predecessors,
  path           \* the vertices found so far from the goal back, then in order

mapVars    == <<map, distances, spreading>>
searchVars == <<start, goal, queue, costs, predecessors>>
vars == <<mapVars, phase, searchVars, path>>

-----------------------------------------------------------------------------
(* Lengths. *)

\* The square root, in thousandths, of a sum of squares on grids of up to five cells.
Root(n) ==
  CASE n = 0 -> 0 [] n = 1 -> 1000 [] n = 2 -> 1414 [] n = 4 -> 2000 [] n = 5 -> 2236
    [] n = 8 -> 2828 [] n = 9 -> 3000 [] n = 10 -> 3162 [] n = 13 -> 3606 [] n = 16 -> 4000
    [] n = 17 -> 4123 [] n = 18 -> 4243 [] n = 20 -> 4472 [] n = 25 -> 5000 [] n = 32 -> 5657

\* distance_between_points
Between(c, d) == Root((c[1] - d[1]) * (c[1] - d[1]) + (c[2] - d[2]) * (c[2] - d[2]))

Shift(c, d) == <<c[1] + d[1], c[2] + d[2]>>
FourWays  == {<<1, 0>>, <<-1, 0>>, <<0, 1>>, <<0, -1>>}
EightWays == {-1, 0, 1} \X {-1, 0, 1} \ {<<0, 0>>}

\* global_position_to_grid_cell: the cast truncates towards zero.
Truncated(x) == IF x < 0 THEN -((-x) \div 2) ELSE x \div 2
CellAt(position) == <<Truncated(position[1]), Truncated(position[2])>>

-----------------------------------------------------------------------------
(* ObstacleDistanceGrid::setDistances *)

\* initializeDistances: unknown cells and obstacles stay at zero.
Initial == [c \in Cells |-> IF map[c] = "free" THEN MaxFloat ELSE 0]
\* enqueue_obstacle_cells
Obstacles == {[cell |-> c, obstacle |-> c] : c \in {d \in Cells : map[d] = "occupied"}}

\* The variables of a search are locals of planPath.
EndSearch == queue' = {} /\ costs' = <<>> /\ predecessors' = <<>>

\* MotionPlanner::setMap
SetMap ==
  /\ phase \in {"none", "planned"}
  /\ map' \in Maps
  /\ distances' = Initial' /\ spreading' = Obstacles'
  /\ phase' = "spread"
  /\ start' = <<0, 0>> /\ goal' = <<0, 0>> /\ path' = <<>>
  /\ UNCHANGED <<queue, costs, predecessors>>

Length(node) == Between(node.cell, node.obstacle)

\* Mutant of Closer: a cell is settled by the first obstacle that reaches it.
Closer_First(node, stored) == stored = MaxFloat
\* Closer to an obstacle than was known.
Closer(node, stored) == Length(node) < stored

\* expand_node: any cell of the grid to which this obstacle is closer.
Neighbours(node) ==
  {n \in {[cell |-> Shift(node.cell, d), obstacle |-> node.obstacle] : d \in FourWays} :
     n.cell \in Cells /\ Closer(n, distances'[n.cell])}

\* The queue gives the node that is farthest from its obstacle.
Spread ==
  /\ phase = "spread" /\ spreading # {}
  /\ \E node \in spreading :
       /\ \A other \in spreading : Length(other) <= Length(node)
       /\ IF Closer(node, distances[node.cell]) \/ Length(node) = 0
          THEN /\ distances' = [distances EXCEPT ![node.cell] = Length(node)]
               /\ spreading' = (spreading \ {node}) \cup Neighbours(node)
          ELSE spreading' = spreading \ {node} /\ UNCHANGED distances
  /\ UNCHANGED <<map, phase, searchVars, path>>

Spreaded ==
  /\ phase = "spread" /\ spreading = {}
  /\ phase' = "ready"
  /\ UNCHANGED <<mapVars, searchVars, path>>

-----------------------------------------------------------------------------
(* MotionPlanner::planPath, search_for_path *)

\* isValidGoal
IsValidGoal(c) == c \in Cells /\ distances[c] > RobotRadius

\* The start is taken to be in the grid.  A path of the start alone means failure.
PlanPath ==
  /\ phase \in {"ready", "planned"}
  /\ \E p \in Positions, g \in Goals : start' = CellAt(p) /\ goal' = CellAt(g)
  /\ IF IsValidGoal(goal')
     THEN /\ queue' = {[cell |-> start', parent |-> start', costSoFar |-> 0]}
          /\ costs' = [c \in Cells |-> Unreached]
          /\ predecessors' = [c \in Cells |-> IF c = start' THEN c ELSE <<>>]
          /\ phase' = "search" /\ path' = <<>>
     ELSE EndSearch /\ phase' = "planned" /\ path' = <<start'>>
  /\ UNCHANGED mapVars

\* cost_to_move: the cost falls below zero for cells farther away than the radius.
ObstacleCost(d) ==
  CASE d < RobotRadius -> 100 * 1000
    [] d >= RobotRadius /\ d < MaxDistanceWithCost -> (RobotRadius - d) \div MetersPerCell
    [] d >= MaxDistanceWithCost -> 0
CostToMove(from, to) == Between(from, to) + ObstacleCost(distances[to])

\* A robot that is too close to an obstacle may go on in any direction.
MayEnter(from, to) ==
  /\ to \in Cells
  /\ \/ distances[from] < RobotRadius /\ distances[from] > 0
     \/ distances[to] > RobotRadius

\* Mutant of Expanded: no step goes across.
Expanded_Straight(node) ==
  {[cell |-> c, parent |-> node.cell, costSoFar |-> node.costSoFar + CostToMove(node.cell, c)] :
     c \in {d \in {Shift(node.cell, way) : way \in FourWays} :
              d # node.parent /\ MayEnter(node.cell, d)}}
\* expand_node
Expanded(node) ==
  {[cell |-> c, parent |-> node.cell, costSoFar |-> node.costSoFar + CostToMove(node.cell, c)] :
     c \in {d \in {Shift(node.cell, way) : way \in EightWays} :
              d # node.parent /\ MayEnter(node.cell, d)}}

Cost(node) == node.costSoFar + Between(node.cell, goal)

\* is_lower_cost_path
IsLowerCost(node) == node.costSoFar < costs[node.cell]

\* The nodes the queue may give next.
Popped == {node \in queue : \A other \in queue : Cost(node) <= Cost(other)}

Search ==
  /\ phase = "search" /\ queue # {}
  /\ \E node \in Popped :
       /\ IF IsLowerCost(node)
          THEN /\ costs' = [costs EXCEPT ![node.cell] = node.costSoFar]
               /\ predecessors' = [predecessors EXCEPT ![node.cell] = node.parent]
               /\ queue' = (queue \ {node}) \cup Expanded(node)
          ELSE queue' = queue \ {node} /\ UNCHANGED <<costs, predecessors>>
       /\ IF node.cell = goal THEN phase' = "trace" /\ path' = <<goal>>
          ELSE UNCHANGED <<phase, path>>
  /\ UNCHANGED <<mapVars, start, goal>>

NotFound ==
  /\ phase = "search" /\ queue = {}
  /\ phase' = "planned" /\ path' = <<start>>
  /\ EndSearch /\ UNCHANGED <<mapVars, start, goal>>

-----------------------------------------------------------------------------
(* extract_path_from_predecessors *)

Step(from, to) == <<from[1] - to[1], from[2] - to[2]>>

\* Mutant of Vertex: the corner is taken one cell too far.
Vertex_TooFar(from) ==
  LET next == predecessors[from]
      step == Step(from, next)
      on[c \in Cells] == IF c # start /\ Step(c, predecessors[c]) = step
                         THEN on[predecessors[c]] ELSE predecessors[c]
  IN IF step = <<0, 0>> THEN from ELSE on[next]
\* find_next_vertex_in_path: back along a line.
Vertex(from) ==
  LET next == predecessors[from]
      step == Step(from, next)
      on[c \in Cells] == IF Step(c, predecessors[c]) = step THEN on[predecessors[c]] ELSE c
  IN IF step = <<0, 0>> THEN from ELSE on[next]

Trace ==
  /\ phase = "trace"
  /\ IF Last(path) # start
     THEN path' = Append(path, Vertex(Last(path))) /\ UNCHANGED <<phase, searchVars>>
     ELSE /\ path' = Reverse(path) /\ phase' = "planned"
          /\ EndSearch /\ UNCHANGED <<start, goal>>
  /\ UNCHANGED mapVars

Init ==
  /\ map = [c \in Cells |-> "unknown"]
  /\ distances = [c \in Cells |-> 0] /\ spreading = {}
  /\ phase = "none" /\ start = <<0, 0>> /\ goal = <<0, 0>> /\ path = <<>>
  /\ queue = {} /\ costs = <<>> /\ predecessors = <<>>

Next == SetMap \/ Spread \/ Spreaded \/ PlanPath \/ Search \/ NotFound \/ Trace

Spec == Init /\ [][Next]_vars

-----------------------------------------------------------------------------
Stay == <<0, 0>>
\* The cells on the way from an obstacle over free cells.
Reached ==
  LET from[n \in Nat] ==
        IF n = 0 THEN {c \in Cells : map[c] = "occupied"}
        ELSE {Shift(p[1], p[2]) :
                p \in {q \in from[n - 1] \X (FourWays \cup {Stay}) :
                         LET c == Shift(q[1], q[2])
                         IN q[2] = Stay \/ (c \in Cells /\ map[c] = "free")}}
  IN from[Width * Height]
Nearest(c) ==
  LET ds == {Between(c, d) : d \in {e \in Cells : map[e] = "occupied"}}
  IN CHOOSE d \in ds : \A e \in ds : d <= e

\* The distance of a free cell is that to the nearest obstacle; where unknown cells are in
\* between it may be longer, never shorter.
DistancesAreTrue ==
  phase \notin {"none", "spread"} =>
    LET reached == Reached
    IN \A c \in Cells :
         /\ map[c] # "free" => distances[c] = 0
         /\ map[c] = "free" /\ c \notin reached => distances[c] = MaxFloat
         /\ map[c] = "free" /\ c \in reached => distances[c] >= Nearest(c)
         /\ (map[c] = "free" /\ \A d \in Cells : map[d] # "unknown") /\ c \in reached =>
              distances[c] = Nearest(c)

Sign(x) == IF x > 0 THEN 1 ELSE IF x < 0 THEN -1 ELSE 0
\* The cells from one vertex of the path to the next.
Line(a, b) ==
  LET n == IF a[1] # b[1] THEN (a[1] - b[1]) * Sign(a[1] - b[1])
                          ELSE (a[2] - b[2]) * Sign(a[2] - b[2])
  IN [i \in 1 .. n |-> <<a[1] + i * Sign(b[1] - a[1]), a[2] + i * Sign(b[2] - a[2])>>]
Along == FoldLeft(LAMBDA cells, i : cells \o Line(path[i], path[i + 1]),
                  <<path[1]>>, [i \in 1 .. Len(path) - 1 |-> i])
Planned == phase = "planned" /\ Len(path) > 1

\* A path goes from the start to the goal in straight lines, turns at each corner, and
\* once it is clear of the obstacles it stays clear.
PathIsClear ==
  Planned =>
    /\ Head(path) = start /\ Last(path) = goal
    /\ Last(Along) = goal
    /\ \A i \in 1 .. Len(Along) - 1 :
         /\ Along[i + 1] \in Cells
         /\ ~(distances[Along[i]] < RobotRadius /\ distances[Along[i]] > 0) =>
               distances[Along[i + 1]] > RobotRadius
    /\ \A i \in 2 .. Len(path) - 1 :
         Line(path[i - 1], path[i])[1] # <<>> =>
           Step(Line(path[i - 1], path[i])[1], path[i - 1]) #
             Step(Line(path[i], path[i + 1])[1], path[i])

\* Where the robot can get to.
Reachable ==
  LET from[n \in Nat] ==
        IF n = 0 THEN {start}
        ELSE {Shift(p[1], p[2]) :
                p \in {q \in from[n - 1] \X (EightWays \cup {Stay}) :
                         q[2] = Stay \/ MayEnter(q[1], Shift(q[1], q[2]))}}
  IN from[Width * Height]

\* Only where there is no path, none is found.
FailsOnlyIfNone ==
  phase = "planned" /\ goal # start /\ Len(path) = 1 /\ goal \in Cells =>
    ~IsValidGoal(goal) \/ goal \notin Reachable
=============================================================================
