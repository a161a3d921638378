SPECIFICATION Spec
CONSTANTS
    WordBits = 8
    WordCard = 256
    ImmCard = 16
    Samples = {0, 1, 2, 3, 15, 16, 27, 64, 100, 127, 128, 129, 202, 240, 254, 255}
INVARIANTS MultiplyExact DivideExact OrderAgrees ShiftsAgree
           UnalignedPair AccessesCompose
