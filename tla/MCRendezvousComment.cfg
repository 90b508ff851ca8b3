SPECIFICATION Spec
CONSTANTS
  r1 = r1
  r2 = r2
  Ranks = {r1, r2}
  NoRank = NoRank
  Shapes = {"vec2", "vec3"}
  MaxCalls = 1
  MaxSpurious = 0
PROPERTIES TimeoutWakesEveryPeer
