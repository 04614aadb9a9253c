SPECIFICATION ReadModelSpec
CONSTANTS
  work = work
  queue = queue
  a = a
  b = b
  c = c
  w1 = w1
  w2 = w2
  Absent = Absent
  Parts <- MCParts
  EntityOf <- MCEntityOf
  Entities = {work, queue}
  Values = {1}
  Writers = {w1, w2}
  Streams = {client}
  client = client
  MaxEvents = 3
  Limits = {1, 2}
INVARIANTS NothingLost
