----------------------------- MODULE GameProofs -----------------------------
(***************************************************************************)
(* The ball stays in the field and the assertions on its direction hold,   *)
(* for every size of field, paddle, ball and bricks that GameAssumption    *)
(* allows and every input.                                                 *)
(***************************************************************************)
EXTENDS Game, TLAPS

BallInv ==
  /\ ball \in [x : 0 .. Field, y : 0 .. Field]
  /\ dir \in [x : Int, y : Int]
  /\ panic = FALSE

(* The ball is put on a paddle that lies in the field (game.rs:289). *)
LEMMA PaddleInField == Field \in Nat /\ BALL_STEP \in Int /\ PADDLE_Y - HalfHeight \in 0 .. Field
<1>1. /\ Field \in Nat /\ PADDLE_Y \in Nat /\ BALL_STEP \in Nat /\ BALL_RAD \in Nat
      /\ BRICK_TOP_Y \in Nat /\ BRICK_SPACING \in Nat /\ PADDLE_HEIGHT \in Nat /\ BRICK_ROWS \in Nat
  BY GameAssumption DEF GameAssumption
<1>2. HalfHeight \in Nat
  BY <1>1 DEF HalfHeight
<1> DEFINE Wall == (PADDLE_HEIGHT + BRICK_SPACING) * BRICK_ROWS
<1>3. Wall \in Nat
  BY <1>1
<1>4. BRICK_TOP_Y + Wall + BALL_RAD + BALL_STEP < PADDLE_Y - HalfHeight
      /\ PADDLE_Y - HalfHeight + BALL_STEP <= Field
  BY GameAssumption DEF GameAssumption
<1> HIDE DEF Wall
<1> QED
  BY <1>1, <1>2, <1>3, <1>4

(* A coordinate that leaves the field does so in its direction: the        *)
(* assertion at the wall holds, and the coordinate is put back             *)
(* (game.rs:257-279).                                                      *)
LEMMA BounceStaysInside ==
  ASSUME NEW p \in 0 .. Field, NEW d \in Int
  PROVE  /\ bounce(p + d, d).pos \in 0 .. Field /\ bounce(p + d, d).dir \in Int
         /\ bounce(p + d, d).ok = TRUE
<1>1. Field \in Nat
  BY PaddleInField
<1>2. CASE p + d > Field
  <2>1. d > 0
    BY <1>1, <1>2
  <2>2. bounce(p + d, d) = [pos |-> Field, dir |-> -d, ok |-> TRUE]
    BY <1>2, <2>1, Zenon DEF bounce
  <2> QED
    BY <1>1, <2>2
<1>3. CASE p + d < 0
  <2>1. d < 0 /\ ~(p + d > Field)
    BY <1>1, <1>3
  <2>2. bounce(p + d, d) = [pos |-> 0, dir |-> -d, ok |-> TRUE]
    BY <1>3, <2>1, Zenon DEF bounce
  <2> QED
    BY <1>1, <2>2
<1>4. CASE ~(p + d > Field) /\ ~(p + d < 0)
  BY <1>1, <1>4 DEF bounce
<1> QED
  BY <1>2, <1>3, <1>4

(* physics keeps the ball in the field, wherever the paddle is and         *)
(* whichever brick is hit (game.rs:252-340).                               *)
LEMMA PhysicsKeepsBall ==
  ASSUME BallInv, NEW p, physics(p)
  PROVE  BallInv'
<1> DEFINE bx == bounce(ball.x + dir.x, dir.x)
           by == bounce(ball.y + dir.y, dir.y)
           hit == rect_intersects(ball_collision_box(Point(bx.pos, by.pos)), paddle_rect(p))
           b == Point(bx.pos, IF hit THEN put_back(by.pos) ELSE by.pos)
           dy == IF hit THEN -by.dir ELSE by.dir
           brick == collision_idx(b)
<1>1. ball.x \in 0 .. Field /\ ball.y \in 0 .. Field /\ dir.x \in Int /\ dir.y \in Int
  BY DEF BallInv
<1>2. bx.pos \in 0 .. Field /\ bx.dir \in Int /\ bx.ok = TRUE
  BY <1>1, BounceStaysInside
<1>3. by.pos \in 0 .. Field /\ by.dir \in Int /\ by.ok = TRUE
  BY <1>1, BounceStaysInside
<1>4. ball' = b /\ dir' = Point(bx.dir, IF brick # 0 THEN -dy ELSE dy) /\ panic' = panic
  BY <1>2, <1>3 DEF physics
<1> HIDE DEF bx, by, hit, brick
<1>5. b \in [x : 0 .. Field, y : 0 .. Field]
  BY <1>2, <1>3, PaddleInField DEF Point, put_back
<1>6. dy \in Int
  BY <1>3
<1> HIDE DEF b, dy
<1>7. Point(bx.dir, IF brick # 0 THEN -dy ELSE dy) \in [x : Int, y : Int]
  BY <1>2, <1>6 DEF Point
<1> QED
  BY <1>4, <1>5, <1>7 DEF BallInv

(* The ball stays in the field and no assertion of update_ball_position    *)
(* fails, in every behaviour of the game (game.rs:258, 264, 270, 276).     *)
THEOREM BallInField == GameSpec => []BallStaysInField
<1>1. GameInit => BallInv
  <2>1. Field \in Nat /\ BALL_STEP \in Int
    BY PaddleInField
  <2>2. Field \div 2 \in 0 .. Field
    BY <2>1
  <2> QED
    BY <2>1, <2>2 DEF GameInit, BallInv, Point
<1>2. BallInv /\ [GameNext]_gameVars => BallInv'
  <2> SUFFICES ASSUME BallInv, [GameNext]_gameVars PROVE BallInv'
    OBVIOUS
  <2>1. ASSUME NEW input \in Inputs, update(input) PROVE BallInv'
    <3>1. CASE pause'
      BY <2>1, <3>1 DEF update, BallInv
    <3>2. CASE ~pause'
      <4>1. physics(paddle_position')
        BY <2>1, <3>2 DEF update
      <4> QED
        BY <4>1, PhysicsKeepsBall
    <3> QED
      BY <3>1, <3>2
  <2>2. CASE UNCHANGED gameVars
    BY <2>2 DEF gameVars, BallInv
  <2> QED
    BY <2>1, <2>2 DEF GameNext
<1>3. BallInv => BallStaysInField
  BY DEF BallInv, BallStaysInField
<1> QED
  BY <1>1, <1>2, <1>3, PTL DEF GameSpec

=============================================================================
