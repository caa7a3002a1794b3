\* One microphone over two trials.
SPECIFICATION VoiceSpec
CONSTANTS
    VTrials = 2
    MaxBlocks = 4
    QueueBlocks = 2
    MinOpen = 2
    PreRoll = 2
    Hangover = 1
    MaxOpen = 3
INVARIANT NoStaleAudio
