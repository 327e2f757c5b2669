SPECIFICATION RingSpec
CONSTANTS
    p1 = p1
    c1 = c1
    c2 = c2
    Producers <- OneProducer
    Consumers <- TwoConsumers
    Size = 2
    WordMod = 16
    MaxPush = 5
SYMMETRY Symmetry
CONSTRAINT NotStrayed
INVARIANTS Accounting PopsSound
