------------------------------ MODULE MCFileStream -----------------------------
EXTENDS FileStream, Functions

CONSTANTS MaxCommands, HeaderSize, BodySizes

\* The files of up to MaxCommands commands, at most one of them unknown, cut anywhere.
\* The first command is recorded before the first tick.
Layouts ==
  UNION {{[format |-> kind.format, count |-> n, header |-> [i \in 1..n |-> HeaderSize], body |-> body,
           start |-> [i \in 1..n + 1 |-> kind.base + SumFunction([j \in 1..i - 1 |-> HeaderSize + body[j]])],
           known |-> [i \in 1..n |-> i # unknown], tick |-> [i \in 1..n |-> i - 2],
           file_info |-> IF kind.finished THEN n ELSE 0]
            : body \in [1..n -> BodySizes], unknown \in 0..n,
              kind \in {[format |-> "demo", base |-> 2, finished |-> TRUE],
                        [format |-> "demo", base |-> 2, finished |-> FALSE],
                        [format |-> "broadcast", base |-> 0, finished |-> FALSE]}}
         : n \in 0..MaxCommands}

MCFiles ==
  UNION {{[format |-> l.format, count |-> l.count, header |-> l.header, body |-> l.body, start |-> l.start,
           known |-> l.known, tick |-> l.tick, file_info |-> l.file_info, length |-> length]
            : length \in l.start[1]..l.start[l.count + 1]} : l \in Layouts}
==============================================================================
