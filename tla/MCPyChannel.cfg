CONSTANTS
  s1 = s1
  s2 = s2
  r1 = r1
  r2 = r2
  Workers <- MCWorkers
  Ops <- MCDemo
  MaxSize = 2
SPECIFICATION ChannelFairSpec
INVARIANT ChannelInv
PROPERTY ChannelCallsReturn
PROPERTY ChannelCallsAreAtomic
