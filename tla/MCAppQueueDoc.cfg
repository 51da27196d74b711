\* The depth gauge in producer mode, with nothing going wrong.
CONSTANTS
  Producers = {p1}
  Consumers = {c1}
  MaxItems = 2
  MaxFaults = 0
  MaxRestarts = 0
SPECIFICATION QueueFairSpec
PROPERTIES
  ProducerKnowsDepth
