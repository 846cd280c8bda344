SPECIFICATION CacheSpec
CONSTANTS
  Caller = {q1, q2}
  Server = {t1, t2}
  Regime = {low, high}
  Question = {"whole", "cells"}
  MaxRetarget = 1
  MaxFlush = 1
CHECK_DEADLOCK FALSE
PROPERTY ServedAnswersQuestion
