CONSTANTS
  Movements <- Steps
  Span = 3
  MaxSent = 2
  MaxKeys = 1
  FrameTicks = 1
  NumCpus = 2
  Field = 24
  PADDLE_Y = 17
  PADDLE_WIDTH = 8
  PADDLE_HEIGHT = 4
  PADDLE_VEL = 6
  BALL_STEP = 3
  BALL_RAD = 2
  BRICK_TOP_Y = 4
  BRICK_SPACING = 1
  BRICK_COLS = 2
  BRICK_ROWS = 1
  MousePositions = {3, 16}
SPECIFICATION MCSpec
INVARIANTS
  PosFollowsMovements
  NobodySleepsOnNews
  BallStaysInField
  PaddleLetsGo
PROPERTIES
  KeyIsRead
  FramesGoOn
