SPECIFICATION WellBehavedSpec
CHECK_DEADLOCK FALSE
CONSTANTS
    WordBits = 3
    WordCard = 8
    ImmCard = 8
    RegionCard = 8
    Entry = 0
    HostResult = {1, 2}
    GPR <- SmallGPR
    InitialRegs <- SmallRegs
    Instr <- SmallInstr
    SyscallOf <- SmallSyscalls
    Mapped <- SmallMapped
    Programs <- SmallPrograms
    AluWrites <- Writes
    AluValue <- Value
    MultDivValue <- MultDiv
    Unroll = 2
    InitCap = 2
PROPERTIES ImplementsSwitch
