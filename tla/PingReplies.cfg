\* Replies late, lost, repeated and reordered, at any moment.
SPECIFICATION Spec
CONSTANT SeqNums = 4
INVARIANT TypeOK
PROPERTY OkMeansAnswered TimeoutMeansUnanswered
