SPECIFICATION Spec
CONSTANTS
    WordBits = 6
    WordCard = 64
    ImmCard = 8
    RegionCard = 32
    Entry = 56
    HostResult = {1, 63}
    GPR <- IsaGPR
    InitialRegs <- IsaRegs
    Instr <- IsaInstr
    SyscallOf <- IsaSyscalls
    Mapped <- IsaMapped
    Programs <- IsaPrograms
    AluWrites <- Writes
    AluValue <- Value
    MultDivValue <- MultDiv
INVARIANT MachineTypeOK
PROPERTY OneDelaySlot
