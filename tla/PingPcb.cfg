\* The target is set again while a packet is handled.
SPECIFICATION Spec
CONSTANT SeqNums = 4
INVARIANT PcbKeptInUse
