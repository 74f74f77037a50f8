SPECIFICATION Spec
CONSTANTS
    MaxSequence = 5
    MaxSelectiveAcks = 2
    MaxIncoming = 2
INVARIANTS ScoreboardIsSet AckRangesAreLowestRuns TimeoutResendsOldest
PROPERTY EvidenceIsNews
