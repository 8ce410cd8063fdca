-------------------------------- MODULE Game -------------------------------
(***************************************************************************)
(* The game (src/game.rs): what one call of Game::update does with the     *)
(* input of the frame.  Module Desktop has the loop that calls it; what is *)
(* drawn is left out.                                                      *)
(*                                                                         *)
(* Lengths are whole numbers of a unit in which those of the code are      *)
(* exact (0.005 of the field); the rounding of f32 is left out.            *)
(***************************************************************************)
EXTENDS Integers, Sequences

CONSTANTS
  Field,         \* 1.0: the side of the field
  PADDLE_Y, PADDLE_WIDTH, PADDLE_HEIGHT, PADDLE_VEL,
  BALL_STEP,     \* BALL_VEL * 0.5, the length of each coordinate of ball_direction
  BALL_RAD,
  BRICK_TOP_Y, BRICK_SPACING, BRICK_COLS, BRICK_ROWS,
  MousePositions \* positions the cursor may report

HalfWidth == PADDLE_WIDTH \div 2
HalfHeight == PADDLE_HEIGHT \div 2

(* The bounce off the paddle takes the ball clear of it, and the paddle is *)
(* away from the walls and from the bricks.                                *)
ASSUME GameAssumption ==
  /\ {Field, PADDLE_Y, PADDLE_VEL, BALL_STEP, BALL_RAD, BRICK_TOP_Y, BRICK_SPACING} \subseteq Nat
  /\ {BRICK_COLS, BRICK_ROWS} \subseteq Nat
  /\ {PADDLE_WIDTH, PADDLE_HEIGHT} \subseteq Nat /\ MousePositions \subseteq 0 .. Field
  /\ HalfWidth + HalfWidth <= Field /\ BALL_STEP > BALL_RAD /\ BALL_STEP <= 2 * HalfHeight
  /\ BRICK_TOP_Y + (PADDLE_HEIGHT + BRICK_SPACING) * BRICK_ROWS + BALL_RAD + BALL_STEP
       < PADDLE_Y - HalfHeight
  /\ PADDLE_Y - HalfHeight + BALL_STEP <= Field

VARIABLES
  pause, paddle_position, paddle_dir,
  ball,    \* ball_position
  dir,     \* ball_direction * BALL_VEL
  bricks,  \* centres of the bricks that are left
  hits,    \* history: frames in a row in which the paddle was hit
  panic

gameVars == <<pause, paddle_position, paddle_dir, ball, dir, bricks, hits, panic>>

-----------------------------------------------------------------------------
Point(x, y) == [x |-> x, y |-> y]

(* A rectangle by its centre and half of its size. *)
Rect(c, w, h) == [left |-> c.x - w, right |-> c.x + w, top |-> c.y - h, bottom |-> c.y + h]

rect_intersects(a, b) ==
  ~(a.left > b.right \/ b.left > a.right \/ a.top > b.bottom \/ b.top > a.bottom)

ball_collision_box(b) == Rect(b, BALL_RAD, BALL_RAD)
brick_box(c) == Rect(c, HalfWidth, HalfHeight)
paddle_rect(p) == Rect(Point(p, PADDLE_Y), HalfWidth, HalfHeight)

(* Bricks have the size of the paddle, row by row from the top left. *)
gen_bricks ==
  LET grid_width == (PADDLE_WIDTH + BRICK_SPACING) * BRICK_COLS - BRICK_SPACING
      left_x == Field \div 2 - grid_width \div 2 + HalfWidth
  IN  [i \in 1 .. BRICK_ROWS * BRICK_COLS |->
         Point(left_x + (PADDLE_WIDTH + BRICK_SPACING) * ((i - 1) % BRICK_COLS),
               BRICK_TOP_Y + (PADDLE_HEIGHT + BRICK_SPACING) * ((i - 1) \div BRICK_COLS))]

GameInit ==
  /\ pause = FALSE /\ paddle_position = Field \div 2 /\ paddle_dir = 0
  /\ ball = Point(Field \div 2, Field \div 2) /\ dir = Point(BALL_STEP, BALL_STEP)
  /\ bricks = gen_bricks /\ hits = 0 /\ panic = FALSE

-----------------------------------------------------------------------------
Keys == {"D_DOWN", "D_UP", "A_DOWN", "A_UP", "SPACE_UP", "other"}
Inputs == {[none |-> TRUE]} \cup [key : Keys] \cup [mouse : MousePositions]

Key(i, k) == i = [key |-> k]
Moved(i) == \E p \in MousePositions : i = [mouse |-> p]

(* handle_input: the state it leaves. *)
paused(i) == IF Key(i, "SPACE_UP") THEN ~pause ELSE pause

new_dir(i) ==
  IF Key(i, "D_DOWN") THEN 1 ELSE IF Key(i, "A_DOWN") THEN -1
  ELSE IF \/ Key(i, "D_UP") /\ paddle_dir = 1
          \/ Key(i, "A_UP") /\ paddle_dir = -1
          \/ Moved(i) THEN 0 ELSE paddle_dir

placed(i) == IF Moved(i) THEN i.mouse ELSE paddle_position

clamp(x, lo, hi) == IF x < lo THEN lo ELSE IF x > hi THEN hi ELSE x

update_paddle_position(p, d) == clamp(p + d * PADDLE_VEL, HalfWidth, Field - HalfWidth)

Bug_bounce(p, d) == [pos |-> p, dir |-> IF p > Field \/ p < 0 THEN -d ELSE d, ok |-> TRUE]

(* One coordinate at the walls: where it is put back, its new direction,   *)
(* and whether the assertion holds.                                        *)
bounce(p, d) ==
  IF p > Field THEN [pos |-> Field, dir |-> -d, ok |-> d > 0]
  ELSE IF p < 0 THEN [pos |-> 0, dir |-> -d, ok |-> d < 0]
  ELSE [pos |-> p, dir |-> d, ok |-> TRUE]

Bug_put_back(y) == y

(* update_ball_position puts a ball that touches the paddle on top of it. *)
put_back(y) == PADDLE_Y - HalfHeight

remove_brick(i) ==
  SubSeq([bricks EXCEPT ![i] = bricks[Len(bricks)]], 1, Len(bricks) - 1)

(* update_bricks: the first brick that the ball touches, or 0. *)
collision_idx(b) ==
  LET hit == {i \in DOMAIN bricks : rect_intersects(ball_collision_box(b), brick_box(bricks[i]))}
  IN  IF hit = {} THEN 0 ELSE CHOOSE i \in hit : \A j \in hit : i <= j

(* physics, with the paddle at p. *)
physics(p) ==
  LET bx == bounce(ball.x + dir.x, dir.x)
      by == bounce(ball.y + dir.y, dir.y)
      hit == rect_intersects(ball_collision_box(Point(bx.pos, by.pos)), paddle_rect(p))
      b == Point(bx.pos, IF hit THEN put_back(by.pos) ELSE by.pos)
      dy == IF hit THEN -by.dir ELSE by.dir
      brick == collision_idx(b)
  IN  IF ~(bx.ok /\ by.ok)
        THEN panic' = TRUE /\ UNCHANGED <<ball, dir, bricks, hits>>
        ELSE /\ ball' = b
             /\ dir' = Point(bx.dir, IF brick # 0 THEN -dy ELSE dy)
             /\ bricks' = IF brick # 0 THEN remove_brick(brick) ELSE bricks
             /\ hits' = IF hit THEN hits + 1 ELSE 0
             /\ UNCHANGED panic

update(input) ==
  /\ ~panic
  /\ pause' = paused(input) /\ paddle_dir' = new_dir(input)
  /\ IF pause'
       THEN paddle_position' = placed(input) /\ UNCHANGED <<ball, dir, bricks, hits, panic>>
       ELSE /\ paddle_position' = update_paddle_position(placed(input), paddle_dir')
            /\ physics(paddle_position')

GameNext == \E input \in Inputs : update(input)

GameSpec == GameInit /\ [][GameNext]_gameVars

-----------------------------------------------------------------------------
(* The ball stays in the field, whatever the paddle and the bricks do to   *)
(* its direction, and the assertions of update_ball_position (game.rs:258, *)
(* 264, 270, 276) hold.                                                    *)
BallStaysInField == {ball.x, ball.y} \subseteq 0 .. Field /\ ~panic

(* The paddle lets go of the ball: also one that comes from below or from  *)
(* the side, or that the paddle is moved onto, is hit in at most two       *)
(* frames in a row (game.rs:288-291 turns it round in each).               *)
PaddleLetsGo == hits <= 2

=============================================================================
