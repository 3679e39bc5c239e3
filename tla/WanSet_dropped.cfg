\* One set on a ConnMan with two cellular services.
\* It may stop: the bounded set and changes have been made.
CHECK_DEADLOCK FALSE
SPECIFICATION WanSetSpec
CONSTANTS
  Set = {s1}
  Setup = {f1}
  Path = {p1, p2}
  NoPath = none
  ConnManAborts = TRUE
  ProxiesFail = FALSE
  MaxRestarts = 1
  MaxNews = 3
INVARIANT NoSetIsDropped
