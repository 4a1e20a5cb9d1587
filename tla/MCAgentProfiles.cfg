CONSTANTS
  Name = {"a", "b", "new"}
  NewName = "new"
  User = {"u", "w"}
  UserLists <- MCUserLists
  NoText = "none"
  Stored <- MCStored
  Choices <- MCChoices
  Found = {{1}, {2, 3}}
  MaxAgents = 3
  MaxEdits = 2
SPECIFICATION Spec
INVARIANTS TypeOK PageShowsProfile
PROPERTY SelectKeeps UserKept ChoiceKept
