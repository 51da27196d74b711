\* What the docstring of ground_truth.py says of the cache: a validator beside
\* the generator.
CONSTANTS
  Validators = {v1, v2}
  MaxGenerations = 2
  MaxKills = 0
SPECIFICATION AnswersSpec
INVARIANTS
  KeyedBySha
