SPECIFICATION Spec
CONSTANTS
    WordBits = 3
    WordCard = 8
    ImmCard = 8
    RegionCard = 8
    Entry = 0
    HostResult = {1, 2}
    GPR <- SmallGPR
    InitialRegs <- SmallRegs
    Instr <- SmallInstr
    SyscallOf <- SmallSyscalls
    Mapped <- SmallMapped
    Programs <- SmallPrograms
    AluWrites <- Writes
    AluValue <- Value
    MultDivValue <- MultDiv
PROPERTY ImplementsSwitch
