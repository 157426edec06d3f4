\* The calls of MCSelection.cfg.
CONSTANT N = 8
CONSTANT Keys = {1, 2, 3, 4}
CONSTANT FewKeys = {1, 3}
CONSTANT HalfKeys = {1, 2, 3}
CONSTANT Threshold = 2
CONSTANT NintherCutoff = 4
CONSTANT LeafMax = 2
CONSTANT MinHalf = 2
CONSTANT SampleMin = 5
CONSTANT SampleDiv = 2
CONSTANT SampleMax = 4
CONSTANT Group = 3
SPECIFICATION MCSpec
INVARIANT SomethingTaken
